---- MODULE Spec2Model ----
(***************************************************************************)
(* A model of the asynchronous-programming demonstrations of               *)
(* src/core/async_programming.py and of the generator pipeline of          *)
(* src/core/functions.py.                                                  *)
(*                                                                         *)
(* The demonstrations are client code of asyncio.  The event loop, Future, *)
(* Task, sleep, gather, wait_for, Lock and Semaphore are modelled with the *)
(* semantics of CPython 3.11's asyncio, the library the source imports;    *)
(* every library operation is named after the asyncio function it models   *)
(* and is mapped to the source line that calls it.                         *)
(*                                                                         *)
(* Time is logical: one tick is 0.5 s, executing code takes no time, and   *)
(* the clock advances only when the loop is idle (the select() timeout).   *)
(* Timers that fall due in the same tick run in any order, and in one      *)
(* iteration of the loop or in several.                                    *)
(*                                                                         *)
(* Every demonstration starts from an empty loop (each demonstrate_* of    *)
(* main() returns with every task it created finished), so a behaviour of  *)
(* the model is one demonstration, chosen in Init, with its literal        *)
(* arguments (delays, number of tasks, time-outs) drawn from small sets    *)
(* that contain the literals of the source.                                *)
(***************************************************************************)
EXTENDS Integers, Sequences, FiniteSets, TLC

\* ------------------------------------------------------------------ bounds
MaxDelay == 2          \* longest sleep of a worker, in ticks
MaxLockTasks == 5      \* most critical_section tasks gathered
MaxWorkers == 4        \* most semaphore workers gathered
MaxFetchDelay == 3     \* random.uniform(0.5, 1.5), in ticks: 1..3
MaxCancels == 2
MaxOps == 3            \* constructor calls and assignments on the objects
MaxStop == 3           \* largest AsyncCounter(stop)
MaxExtra == 2          \* most __anext__ calls after the loop has ended
MaxResWait == 5        \* longest sleep before the entry task is cancelled
MaxCancelWait == 5     \* longest sleep before task.cancel()
MaxSetters == 2        \* most set_future_result tasks started
MaxSetDelay == 3       \* longest sleep of set_future_result, in ticks
MaxTimeout == 2        \* longest timeout of wait_for, in ticks
MaxPre == 1            \* longest sleep between create_task and wait_for
MaxWaiters == 3        \* gather(waiter(1), .., waiter(n), setter())
MaxOpWait == 2         \* the other task acts after 0..this many ticks
MaxInserts == 2        \* calls of MockDatabase.insert
MaxSource == 5         \* pipeline_generator yields range(n), n up to this

\* ------------------------------------------------------- program constants
SemCapacity == 2       \* asyncio.Semaphore(2)
MinWaiters == 2        \* gather(waiter(1), waiter(2), setter())
MinLockTasks == 3      \* gather(critical_section(1), .. (2), .. (3))
NumFetch == 3          \* fetch_data(i, ..) for i in range(1, 4)
LongFetch == 4         \* fetch_data(10, 2.0)
LongFetchId == 10      \* fetch_data(10, 2.0)

VARIABLES
    scenario,   \* the demonstration being run
    inp,        \* its arguments
    now,        \* loop.time(), in ticks
    ready,      \* loop._ready: FIFO of handles
    ntodo,      \* handles left to run in the current _run_once iteration
    timers,     \* loop._scheduled: set of [when, seq, h]
    tseq,       \* number of call_later() calls so far
    stopping,   \* loop._stopping
    futs,       \* every Future / Task / gathering future created, by identity
    running,    \* the task whose coroutine is executing (0: none)
    lock,       \* asyncio.Lock: [locked, waiters]
    sem,        \* asyncio.Semaphore: [value, waiters]
    out,        \* the lines printed so far, as <<tag, id>>
    completed,  \* the futures that are done, in the order they became done
    gen,        \* the generators of the pipeline of functions.py, and
                \* the AsyncCounter of async_programming.py
    event,      \* asyncio.Event: [value, waiters]
    db,         \* MockDatabase of test_fixtures.py
    oop         \* the objects of oop_advanced.py: the registry of
                \* SingletonMeta, the instances, and a Product

vars == <<scenario, inp, oop, now, ready, ntodo, timers, tseq, stopping, futs,
          running, lock, sem, out, completed, gen, event, db>>

\* ---------------------------------------------------------------- helpers
RECURSIVE SeqSum(_)
SeqSum(s) == IF s = <<>> THEN 0 ELSE Head(s) + SeqSum(Tail(s))

SeqMax(s) == IF s = <<>> THEN 0
             ELSE CHOOSE m \in {s[i] : i \in 1..Len(s)} :
                      \A i \in 1..Len(s) : s[i] <= m

\* (a remove that leaves the sequence as it is)
RemoveNothing(s, x) == s

Remove(s, x) == SelectSeq(s, LAMBDA e : e # x)

Range(s) == {s[i] : i \in 1..Len(s)}

\* ------------------------------------------------------- futures and tasks
\* One record shape for Future, Task and gather's outer future.
NewFut ==
    [kind |-> "future", state |-> "PENDING", result |-> <<>>, exc |-> "",
     cbs |-> <<>>,
     \* Task
     prog |-> "", arg |-> 0, pc |-> "", ret |-> "", fut_waiter |-> 0,
     must_cancel |-> FALSE, num_cancels_requested |-> 0,
     thrown |-> "", val |-> <<>>, started |-> FALSE,
     \* locals of the coroutine
     d |-> 0, h |-> 0, lf |-> 0, uf |-> 0, t0 |-> 0,
     \* the exception in flight while __aexit__ / finally runs
     pend |-> "",
     \* history: cancel() was called on the task before its first step
     early |-> FALSE,
     \* history: cancel() was called on the task while it was suspended on
     \* a pending future
     susp |-> FALSE,
     \* gather: children, nfinished, _cancel_requested
     kids |-> <<>>, nfin |-> 0, cancel_requested |-> FALSE]

NewTask(prog, arg, d) ==
    [NewFut EXCEPT !.kind = "task", !.prog = prog, !.arg = arg, !.d = d,
                   !.pc = "start"]

H(k, a, f) == [k |-> k, a |-> a, f |-> f]
Cb(k, a) == [k |-> k, a |-> a]

\* The part of the state the library operations rewrite together.
KS == [futs |-> futs, ready |-> ready, completed |-> completed]
Commit(K) ==
    futs' = K.futs /\ ready' = K.ready /\ completed' = K.completed

Done(K, f) == K.futs[f].state # "PENDING"

\* loop.create_future(): the new future is Len(K.futs) + 1
CreateFuture(K) == [K EXCEPT !.futs = Append(@, NewFut)]

\* loop.create_task(coro): the task is created and its first __step is
\* put on the ready queue with call_soon; the coroutine does not run.
\* (a create_task that puts the first step at the head of the ready queue)
CreateTaskAtHead(K, prog, arg, d) ==
    [K EXCEPT !.futs = Append(@, NewTask(prog, arg, d)),
              !.ready = <<H("step", Len(K.futs) + 1, 0)>> \o @]

CreateTask(K, prog, arg, d) ==
    [K EXCEPT !.futs = Append(@, NewTask(prog, arg, d)),
              !.ready = Append(@, H("step", Len(K.futs) + 1, 0))]

\* Future.__schedule_callbacks, run when a future becomes done:
\* call_soon(cb, fut) for every callback
ScheduleCallbacks(K, f) ==
    [futs |-> [K.futs EXCEPT ![f].cbs = <<>>],
     ready |-> K.ready \o [i \in 1..Len(K.futs[f].cbs) |->
                              H(K.futs[f].cbs[i].k, K.futs[f].cbs[i].a, f)],
     completed |-> Append(K.completed, f)]

\* Future.set_result on a pending future
SetResult(K, f, v) ==
    ScheduleCallbacks([K EXCEPT !.futs[f].state = "FINISHED",
                                !.futs[f].result = v], f)

\* Future.set_exception on a pending future
SetException(K, f, e) ==
    ScheduleCallbacks([K EXCEPT !.futs[f].state = "FINISHED",
                                !.futs[f].exc = e], f)

\* (a set_result without the state check)
FutureSetResultAnyState(K, f, v) ==
    [K |-> SetResult(K, f, v), err |-> ""]

\* Future.set_result as the client calls it: InvalidStateError unless the
\* future is pending; the answer is [K, err]
FutureSetResult(K, f, v) ==
    IF Done(K, f) THEN [K |-> K, err |-> "InvalidStateError"]
    ELSE [K |-> SetResult(K, f, v), err |-> ""]

\* Future.cancel(): False when already done
CancelFuture(K, f) ==
    IF Done(K, f) THEN K
    ELSE ScheduleCallbacks([K EXCEPT !.futs[f].state = "CANCELLED"], f)

\* Future.add_done_callback
AddDoneCallback(K, f, cb) ==
    IF Done(K, f)
    THEN [K EXCEPT !.ready = Append(@, H(cb.k, cb.a, f))]
    ELSE [K EXCEPT !.futs[f].cbs = Append(@, cb)]

\* Future.remove_done_callback
RemoveDoneCallback(K, f, cb) ==
    [K EXCEPT !.futs[f].cbs = Remove(@, cb)]

\* cancel() of a Future, a Task (Task.cancel) or a _GatheringFuture;
\* the answer is [K, ok].
\* (a cancel that marks the task whatever its state)
CancelMarksAlways(K, f) ==
    [K |-> [K EXCEPT !.futs[f].must_cancel = TRUE], ok |-> TRUE]

RECURSIVE Cancel(_, _)
RECURSIVE CancelKids(_, _, _, _)
CancelKids(K, kids, i, ok) ==
    IF i > Len(kids) THEN [K |-> K, ok |-> ok]
    ELSE LET r == Cancel(K, kids[i])
         IN  CancelKids(r.K, kids, i + 1, ok \/ r.ok)
Cancel(K, f) ==
    LET o == K.futs[f] IN
    IF o.state # "PENDING" THEN [K |-> K, ok |-> FALSE]
    ELSE IF o.kind = "future" THEN [K |-> CancelFuture(K, f), ok |-> TRUE]
    ELSE IF o.kind = "task" THEN
        LET K1 == [K EXCEPT !.futs[f].num_cancels_requested = @ + 1]
            r == IF o.fut_waiter # 0 THEN Cancel(K1, o.fut_waiter)
                 ELSE [K |-> K1, ok |-> FALSE]
        IN  IF r.ok THEN r
            ELSE [K |-> [r.K EXCEPT !.futs[f].must_cancel = TRUE],
                  ok |-> TRUE]
    ELSE
        LET r == CancelKids(K, o.kids, 1, FALSE)
        IN  IF r.ok
            THEN [K |-> [r.K EXCEPT !.futs[f].cancel_requested = TRUE],
                  ok |-> TRUE]
            ELSE r

\* n calls of cancel() in a row
RECURSIVE CancelTimes(_, _, _)
CancelTimes(K, f, n) ==
    IF n = 0 THEN K ELSE CancelTimes(Cancel(K, f).K, f, n - 1)

\* Task t waits for a future that is still pending
Suspended(K, t) ==
    /\ K.futs[t].state = "PENDING" /\ K.futs[t].fut_waiter # 0
    /\ K.futs[K.futs[t].fut_waiter].state = "PENDING"

\* What Future.result() raises ("": nothing, the result is returned)
Outcome(o) == IF o.state = "CANCELLED" THEN "CancelledError"
              ELSE IF o.state = "PENDING" THEN "InvalidStateError"
              ELSE o.exc

\* `await f` in task t, continuing at label L: a done future does not
\* suspend; a pending one gets Task.__wakeup as a callback and becomes
\* _fut_waiter (Task.__step), and a pending cancellation is passed on.
\* The answer is [K, run]: run = 0 when the task suspended.
Await(K, t, f, L) ==
    IF Done(K, f)
    THEN [K |-> [K EXCEPT !.futs[t].pc = L,
                          !.futs[t].thrown = Outcome(K.futs[f]),
                          !.futs[t].val = K.futs[f].result],
          run |-> t]
    ELSE LET K1 == AddDoneCallback(
                       [K EXCEPT !.futs[t].pc = L,
                                 !.futs[t].fut_waiter = f],
                       f, Cb("wakeup", t))
             r == Cancel(K1, f)
         IN  [K |-> IF K1.futs[t].must_cancel /\ r.ok
                    THEN [r.K EXCEPT !.futs[t].must_cancel = FALSE]
                    ELSE K1,
              run |-> 0]

\* The coroutine of task t returns v (StopIteration in Task.__step)
Return(K, t, v) ==
    LET K1 == [K EXCEPT !.futs[t].pc = "done", !.futs[t].thrown = ""] IN
    IF K.futs[t].must_cancel
    THEN CancelFuture([K1 EXCEPT !.futs[t].must_cancel = FALSE], t)
    ELSE SetResult(K1, t, v)

\* (a step that treats CancelledError as any other exception)
RaiseCancelAsError(K, t, e) ==
    SetException([K EXCEPT !.futs[t].pc = "done", !.futs[t].thrown = ""], t, e)

\* The coroutine of task t raises e (Task.__step)
Raise(K, t, e) ==
    LET K1 == [K EXCEPT !.futs[t].pc = "done", !.futs[t].thrown = ""] IN
    IF e = "CancelledError" THEN CancelFuture(K1, t)
    ELSE SetException(K1, t, e)

\* ------------------------------------------------------------- the loop
\* (a loop that takes every timer for due)
DueAlways(t) == timers

Due(t) == {x \in timers : x.when <= t}

\* x runs before y: an earlier deadline.  Deadlines that are equal in
\* ticks differ, if at all, by the time the code took to run between the
\* two call_later() calls, and the heap does not keep equal deadlines in
\* the order of the calls: timers of one tick run in any order.
Before(x, y) == x.when < y.when

\* the sets of due timers one iteration may find due: nothing that must
\* run earlier is left behind
Batches(D) == {B \in SUBSET D : \A x \in B, y \in D : Before(y, x) => y \in B}

\* the orders in which the heap can hand out the timers of B
Orders(B) ==
    {o \in [1..Cardinality(B) -> B] :
        /\ \A i, j \in 1..Cardinality(B) : i # j => o[i] # o[j]
        /\ \A i, j \in 1..Cardinality(B) : i < j => ~Before(o[j], o[i])}

NextWake == CHOOSE w \in {x.when : x \in timers} :
                \A x \in timers : w <= x.when

\* BaseEventLoop._run_once up to `ntodo = len(self._ready)`: with nothing
\* ready, select() sleeps until the first deadline; the timers found due
\* are appended to the ready queue.
RunOnce ==
    /\ running = 0 /\ ntodo = 0 /\ ~stopping
    /\ ready # <<>> \/ timers # {}
    /\ LET t == IF ready = <<>> /\ Due(now) = {} THEN NextWake ELSE now
       IN  \E B \in Batches(Due(t)) : \E o \in Orders(B) :
               /\ ready = <<>> => B # {}
               /\ now' = t
               /\ ready' = ready \o [i \in 1..Cardinality(B) |-> o[i].h]
               /\ timers' = timers \ B
               /\ ntodo' = Len(ready) + Cardinality(B)
    /\ UNCHANGED <<scenario, inp, oop, gen, db, event, completed, tseq, stopping, futs, running, lock, sem, out>>

\* (a step that forgets the cancel request)
StepIgnoreCancel(K, t, e, v) ==
    [K EXCEPT !.futs[t].thrown = e,
              !.futs[t].val = v,
              !.futs[t].must_cancel = FALSE,
              !.futs[t].fut_waiter = 0]

\* Task.__step(exc) entered from a handle: a pending cancel request
\* replaces exc by CancelledError
Step(K, t, e, v) ==
    [K EXCEPT !.futs[t].thrown = IF K.futs[t].must_cancel
                                 THEN "CancelledError" ELSE e,
              !.futs[t].val = v,
              !.futs[t].must_cancel = FALSE,
              !.futs[t].fut_waiter = 0]

\* (a step that does not wait for the running coroutine to give up control)
RunStepPreempt ==
    /\ ntodo > 0 /\ Head(ready).k = "step"
    /\ LET t == Head(ready).a
       IN  /\ Commit(Step([KS EXCEPT !.ready = Tail(@)], t, "", <<>>))
           /\ running' = t
    /\ ntodo' = ntodo - 1
    /\ UNCHANGED <<scenario, inp, oop, gen, db, event, now, timers, tseq, stopping, lock, sem, out>>

\* handle._run() of the head of the ready queue
\* a Task.__step scheduled by create_task (or by a bare yield)
RunStep ==
    /\ running = 0 /\ ntodo > 0 /\ Head(ready).k = "step"
    /\ LET t == Head(ready).a
       IN  /\ Commit(Step([KS EXCEPT !.ready = Tail(@)], t, "", <<>>))
           /\ running' = t
    /\ ntodo' = ntodo - 1
    /\ UNCHANGED <<scenario, inp, oop, gen, db, event, now, timers, tseq, stopping, lock, sem, out>>

\* Task.__wakeup(future): the future's outcome is sent into the coroutine
RunWakeup ==
    /\ running = 0 /\ ntodo > 0 /\ Head(ready).k = "wakeup"
    /\ LET t == Head(ready).a
           f == Head(ready).f
       IN  /\ Commit(Step([KS EXCEPT !.ready = Tail(@)], t,
                          Outcome(futs[f]), futs[f].result))
           /\ running' = t
    /\ ntodo' = ntodo - 1
    /\ UNCHANGED <<scenario, inp, oop, gen, db, event, now, timers, tseq, stopping, lock, sem, out>>

\* futures._set_result_unless_cancelled(fut, None): the timer of sleep()
RunTimerSet ==
    /\ running = 0 /\ ntodo > 0 /\ Head(ready).k = "timer_set"
    /\ LET f == Head(ready).f
           K == [KS EXCEPT !.ready = Tail(@)]
       IN  Commit(IF K.futs[f].state = "CANCELLED" THEN K
                  ELSE SetResult(K, f, <<>>))
    /\ ntodo' = ntodo - 1
    /\ UNCHANGED <<scenario, inp, oop, gen, db, event, now, timers, tseq, stopping, running, lock, sem, out>>

\* (results collected as the children complete)
GatherResultsAsCompleted(F, kids) ==
    LET o == SelectSeq(completed,
                       LAMBDA f : f \in Range(kids) /\ F[f].result # <<>>)
    IN  [i \in 1..Len(o) |-> F[o[i]].result[1]]

\* gather's results: the children's results in the order of the arguments
RECURSIVE GatherResults(_, _)
GatherResults(F, kids) ==
    IF kids = <<>> THEN <<>>
    ELSE F[Head(kids)].result \o GatherResults(F, Tail(kids))

\* (a gather that waits for every child and then raises the error of the
\* first argument that failed)
GatherDoneWaitAll(K, g, f) ==
    LET K1 == [K EXCEPT !.futs[g].nfin = @ + 1]
        o == K1.futs[g]
        bad == {i \in 1..Len(o.kids) : Outcome(K1.futs[o.kids[i]]) # ""}
    IN  IF o.state # "PENDING" \/ o.nfin < Len(o.kids) THEN K1
        ELSE IF bad # {}
        THEN SetException(K1, g, Outcome(K1.futs[o.kids[
                 CHOOSE i \in bad : \A j \in bad : i <= j]]))
        ELSE SetResult(K1, g, GatherResults(K1.futs, o.kids))

\* gather._done_callback(fut) for the outer future g
GatherDone(K, g, f) ==
    LET K1 == [K EXCEPT !.futs[g].nfin = @ + 1]
        o == K1.futs[g]
        c == K1.futs[f]
    IN  IF o.state # "PENDING" THEN K1
        ELSE IF c.state = "CANCELLED" THEN SetException(K1, g, "CancelledError")
        ELSE IF c.exc # "" THEN SetException(K1, g, c.exc)
        ELSE IF o.nfin = Len(o.kids)
             THEN IF o.cancel_requested
                  THEN SetException(K1, g, "CancelledError")
                  ELSE SetResult(K1, g, GatherResults(K1.futs, o.kids))
        ELSE K1

RunGatherDone ==
    /\ running = 0 /\ ntodo > 0 /\ Head(ready).k = "gather"
    /\ Commit(GatherDone([KS EXCEPT !.ready = Tail(@)],
                         Head(ready).a, Head(ready).f))
    /\ ntodo' = ntodo - 1
    /\ UNCHANGED <<scenario, inp, oop, gen, db, event, now, timers, tseq, stopping, running, lock, sem, out>>

\* tasks._release_waiter(waiter): wait_for's timer and done callback
RunRelease ==
    /\ running = 0 /\ ntodo > 0 /\ Head(ready).k = "release"
    /\ LET w == Head(ready).a
           K == [KS EXCEPT !.ready = Tail(@)]
       IN  Commit(IF Done(K, w) THEN K ELSE SetResult(K, w, <<>>))
    /\ ntodo' = ntodo - 1
    /\ UNCHANGED <<scenario, inp, oop, gen, db, event, now, timers, tseq, stopping, running, lock, sem, out>>

\* run_until_complete's done callback of the entry task: loop.stop()
RunStop ==
    /\ running = 0 /\ ntodo > 0 /\ Head(ready).k = "stop"
    /\ ready' = Tail(ready)
    /\ stopping' = TRUE
    /\ ntodo' = ntodo - 1
    /\ UNCHANGED <<scenario, inp, oop, gen, db, event, completed, now, timers, tseq, futs, running, lock, sem, out>>

\* ------------------------------------------------- library coroutines
\* (a cancel() that leaves the timer armed)
CancelHandleNot(T, h) == T

\* TimerHandle.cancel(): the timer will not run
CancelHandle(T, h) == {x \in T : x.seq # h}

\* (a deadline that counts the delay twice)
CallLaterWhenTwice(t, d) == t + 2 * d

\* loop.call_later(d, ..): the deadline
CallLaterWhen(t, d) == t + d

\* asyncio.sleep(d), d > 0, in task t, continuing at L: a future, a timer
\* that resolves it, and `await future`.  K is the state it is called in.
Sleep(K, t, d, L) ==
    LET K1 == CreateFuture(K)
        f == Len(K1.futs)
        r == Await([K1 EXCEPT !.futs[t].h = tseq + 1,
                              !.futs[t].ret = L], t, f, "sleep_wait")
    IN  /\ Commit(r.K)
        /\ running' = r.run
        /\ timers' = timers \cup
               {[when |-> CallLaterWhen(now, d), seq |-> tseq + 1,
                 h |-> H("timer_set", 0, f)]}
        /\ tseq' = tseq + 1

\* sleep() resumed: `finally: h.cancel()`, then back in the caller
SleepResume ==
    /\ running # 0 /\ futs[running].pc = "sleep_wait"
    /\ timers' = CancelHandle(timers, futs[running].h)
    /\ futs' = [futs EXCEPT ![running].pc = futs[running].ret,
                            ![running].h = 0]
    /\ UNCHANGED <<scenario, inp, oop, gen, db, event, completed, now, ready, ntodo, tseq, stopping, running,
                   lock, sem, out>>

\* gather(*tasks) awaited in task t, continuing at L: the done callback on
\* every child, the outer future, and `await outer`.
RECURSIVE AddGatherCbs(_, _, _)
AddGatherCbs(K, kids, g) ==
    IF kids = <<>> THEN K
    ELSE AddGatherCbs(AddDoneCallback(K, Head(kids), Cb("gather", g)),
                      Tail(kids), g)

Gather(K, t, kids, L) ==
    LET g == Len(K.futs) + 1
        K1 == AddGatherCbs(K, kids, g)
        K2 == [K1 EXCEPT !.futs = Append(@, [NewFut EXCEPT !.kind = "gather",
                                                          !.kids = kids])]
    IN  Await([K2 EXCEPT !.futs[t].lf = g], t, g, L)

\* create_task for each of the coroutines prog(i, ds[i]), i = 1..Len(ds)
RECURSIVE SpawnAll(_, _, _, _)
SpawnAll(K, prog, ds, i) ==
    IF i > Len(ds) THEN K
    ELSE SpawnAll(CreateTask(K, prog, i, ds[i]), prog, ds, i + 1)

\* the ids of the tasks SpawnAll creates
Spawned(K, ds) == [i \in 1..Len(ds) |-> Len(K.futs) + i]

\* ------------------------------------------------------ asyncio.Lock
\* (a wake-up that takes the newest waiter instead of the oldest)
LockWakeUpLast(K, L) ==
    IF L.waiters = <<>> THEN K
    ELSE IF Done(K, L.waiters[Len(L.waiters)]) THEN K
    ELSE SetResult(K, L.waiters[Len(L.waiters)], <<>>)

\* (a release that wakes nobody)
LockWakeUpNobody(K, L) == K

\* Lock._wake_up_first: the first waiter, unless it is done
LockWakeUpFirst(K, L) ==
    IF L.waiters = <<>> THEN K
    ELSE IF Done(K, Head(L.waiters)) THEN K
    ELSE SetResult(K, Head(L.waiters), <<>>)

\* (an acquire that takes the lock whether it is free or not)
LockAcquireAlways(t, ret) ==
    /\ lock' = [lock EXCEPT !.locked = TRUE]
    /\ futs' = [futs EXCEPT ![t].pc = ret]
    /\ UNCHANGED <<ready, running, completed>>

\* (an acquire that takes a free lock past the waiters already woken)
LockAcquireBarging(t, ret) ==
    IF ~lock.locked
    THEN /\ lock' = [lock EXCEPT !.locked = TRUE]
         /\ futs' = [futs EXCEPT ![t].pc = ret]
         /\ UNCHANGED <<ready, running, completed>>
    ELSE LET K1 == CreateFuture(KS)
             f == Len(K1.futs)
             r == Await([K1 EXCEPT !.futs[t].lf = f, !.futs[t].ret = ret],
                        t, f, "lock_wait")
         IN  /\ lock' = [lock EXCEPT !.waiters = Append(@, f)]
             /\ Commit(r.K)
             /\ running' = r.run

\* Lock.acquire() in task t up to `await fut`, continuing at label ret
LockAcquire(t, ret) ==
    IF ~lock.locked /\ \A i \in 1..Len(lock.waiters) :
                           futs[lock.waiters[i]].state = "CANCELLED"
    THEN /\ lock' = [lock EXCEPT !.locked = TRUE]
         /\ futs' = [futs EXCEPT ![t].pc = ret]
         /\ UNCHANGED <<ready, running, completed>>
    ELSE LET K1 == CreateFuture(KS)
             f == Len(K1.futs)
             r == Await([K1 EXCEPT !.futs[t].lf = f, !.futs[t].ret = ret],
                        t, f, "lock_wait")
         IN  /\ lock' = [lock EXCEPT !.waiters = Append(@, f)]
             /\ Commit(r.K)
             /\ running' = r.run

\* Lock.acquire() resumed: the waiter is removed; a cancelled waiter wakes
\* the next one when the lock is free, the others take the lock
LockAcquireResume ==
    /\ running # 0 /\ futs[running].pc = "lock_wait"
    /\ LET t == running
           L1 == [lock EXCEPT !.waiters = Remove(@, futs[t].lf)]
           K1 == [KS EXCEPT !.futs[t].pc = futs[t].ret]
       IN  IF futs[t].thrown = "CancelledError"
           THEN /\ lock' = L1
                /\ Commit(IF ~L1.locked THEN LockWakeUpFirst(K1, L1) ELSE K1)
           ELSE /\ lock' = [L1 EXCEPT !.locked = TRUE]
                /\ Commit(K1)
    /\ UNCHANGED <<scenario, inp, oop, gen, db, event, now, ntodo, timers, tseq, stopping, running,
                   sem, out>>

\* (a release that does not look at the lock's state)
LockReleaseNoCheck(K, L) ==
    [K |-> LockWakeUpFirst(K, L), lock |-> [L EXCEPT !.locked = FALSE],
     err |-> ""]

\* Lock.release(): the answer is [K, lock, err]
LockRelease(K, L) ==
    IF L.locked
    THEN [K |-> LockWakeUpFirst(K, L), lock |-> [L EXCEPT !.locked = FALSE],
          err |-> ""]
    ELSE [K |-> K, lock |-> L, err |-> "RuntimeError"]

\* ------------------------------------------------- asyncio.Semaphore
\* (a locked() that forgets the counter)
SemLockedNoCount(K, S) ==
    \E i \in 1..Len(S.waiters) : K.futs[S.waiters[i]].state # "CANCELLED"
\* Semaphore.locked()
SemLocked(K, S) ==
    S.value = 0 \/
    \E i \in 1..Len(S.waiters) : K.futs[S.waiters[i]].state # "CANCELLED"

\* (a wake-up that looks at the head of the queue only)
WakeUpHead(K, S) ==
    IF S.waiters = <<>> \/ Done(K, Head(S.waiters)) THEN [K |-> K, sem |-> S]
    ELSE [K |-> SetResult(K, Head(S.waiters), <<>>),
          sem |-> [S EXCEPT !.value = @ - 1]]

\* Semaphore._wake_up_next: the first waiter that is not done takes a slot;
\* the answer is [K, sem]
WakeUpNext(K, S) ==
    LET idx == {i \in 1..Len(S.waiters) : ~Done(K, S.waiters[i])} IN
    IF idx = {} THEN [K |-> K, sem |-> S]
    ELSE LET i == CHOOSE j \in idx : \A k \in idx : j <= k
         IN  [K |-> SetResult(K, S.waiters[i], <<>>),
              sem |-> [S EXCEPT !.value = @ - 1]]

\* Semaphore.acquire() in task t up to `await fut`, continuing at ret
SemAcquire(t, ret) ==
    IF ~SemLocked(KS, sem)
    THEN /\ sem' = [sem EXCEPT !.value = @ - 1]
         /\ futs' = [futs EXCEPT ![t].pc = ret]
         /\ UNCHANGED <<ready, running, completed>>
    ELSE LET K1 == CreateFuture(KS)
             f == Len(K1.futs)
             r == Await([K1 EXCEPT !.futs[t].lf = f, !.futs[t].ret = ret],
                        t, f, "sem_wait")
         IN  /\ sem' = [sem EXCEPT !.waiters = Append(@, f)]
             /\ Commit(r.K)
             /\ running' = r.run

\* Semaphore.acquire() resumed
SemAcquireResume ==
    /\ running # 0 /\ futs[running].pc = "sem_wait"
    /\ LET t == running
           S1 == [sem EXCEPT !.waiters = Remove(@, futs[t].lf)]
           K1 == [KS EXCEPT !.futs[t].pc = futs[t].ret]
           w == WakeUpNext(K1, [S1 EXCEPT !.value = @ + 1])
           v == WakeUpNext(K1, S1)
       IN  IF futs[t].thrown = "CancelledError"
           THEN IF futs[futs[t].lf].state # "CANCELLED"
                THEN sem' = w.sem /\ Commit(w.K)
                ELSE sem' = S1 /\ Commit(K1)
           ELSE IF S1.value > 0
                THEN sem' = v.sem /\ Commit(v.K)
                ELSE sem' = S1 /\ Commit(K1)
    /\ UNCHANGED <<scenario, inp, oop, gen, db, event, now, ntodo, timers, tseq, stopping, running,
                   lock, out>>

\* (a release that refuses to go above the initial value)
SemReleaseBounded(K, S) ==
    IF S.value >= SemCapacity THEN [K |-> K, sem |-> S]
    ELSE WakeUpNext(K, [S EXCEPT !.value = @ + 1])

\* Semaphore.release(): the answer is [K, sem]
SemRelease(K, S) == WakeUpNext(K, [S EXCEPT !.value = @ + 1])

\* ----------------------------------------------------- asyncio.Event
\* (a set() that wakes the first waiter only)
RECURSIVE EventWakeAll(_, _)
EventWakeFirst(K, ws) ==
    IF ws = <<>> \/ Done(K, Head(ws)) THEN K ELSE SetResult(K, Head(ws), <<1>>)

\* Event.set(), the loop: every waiter that is not done gets its result
EventWakeAll(K, ws) ==
    IF ws = <<>> THEN K
    ELSE EventWakeAll(IF Done(K, Head(ws)) THEN K
                      ELSE SetResult(K, Head(ws), <<1>>), Tail(ws))

\* Event.set(): the answer is [K, event]
EventSet(K, E) ==
    IF E.value THEN [K |-> K, event |-> E]
    ELSE [K |-> EventWakeAll(K, E.waiters), event |-> [E EXCEPT !.value = TRUE]]

\* (a clear() that also forgets the waiters)
EventClearWaiters(E) == [E EXCEPT !.value = FALSE, !.waiters = <<>>]

\* Event.clear()
EventClear(E) == [E EXCEPT !.value = FALSE]

\* Event.wait() resumed: `finally: self._waiters.remove(fut)`, which raises
\* ValueError when fut is not in the deque; then `return True`
EventWaitResume ==
    /\ running # 0 /\ futs[running].pc = "event_wait"
    /\ LET t == running IN
       IF futs[t].lf \in Range(event.waiters)
       THEN /\ event' = [event EXCEPT !.waiters = Remove(@, futs[t].lf)]
            /\ futs' = [futs EXCEPT ![t].pc = futs[t].ret]
       ELSE /\ event' = event
            /\ futs' = [futs EXCEPT ![t].pc = futs[t].ret,
                                    ![t].thrown = "ValueError"]
    /\ UNCHANGED <<scenario, inp, oop, gen, db, now, ready, ntodo, timers, tseq, stopping,
                   running, lock, sem, out, completed>>

\* ------------------------------------------------------- the coroutines
\* the running task is t, at label l, with no exception in flight
At(t, l) == running = t /\ futs[t].pc = l /\ futs[t].thrown = ""
\* the same with or without an exception in flight
AtAny(t, l) == running = t /\ futs[t].pc = l

Tasks == {t \in 1..Len(futs) : futs[t].kind = "task"}

\* The primitives are also driven by calls the demonstration does not
\* make: one more task, not gathered, that after inp.wait ticks calls
\* release() on the primitive without having acquired it, or cancel() on
\* the inp.target-th gathered task, or enters critical_section itself
\* (inp.op; "none" is the source's case).
\* inp.wait = -1 creates it before the gathered tasks, so that it acts
\* before any of them has run.
OpBefore(K) ==
    IF inp.op \in {"release", "cancel", "acquire"} /\ inp.wait < 0
    THEN CreateTask(K, "other_task", inp.target, 0) ELSE K
OpAfter(K) ==
    IF inp.op \in {"release", "cancel", "acquire"} /\ inp.wait >= 0
    THEN CreateTask(K, "other_task", inp.target, inp.wait) ELSE K

OtherStart(t) ==
    /\ futs[t].prog = "other_task" /\ At(t, "start")
    /\ IF futs[t].d > 0
       THEN Sleep([KS EXCEPT !.futs[t].started = TRUE], t, futs[t].d, "op_act")
       ELSE /\ Commit([KS EXCEPT !.futs[t].started = TRUE,
                                 !.futs[t].pc = "op_act"])
            /\ UNCHANGED <<running, timers, tseq>>
    /\ UNCHANGED <<scenario, inp, oop, gen, db, event, now, ntodo, stopping, lock, sem, out>>

\* lock.release() / semaphore.release() / task.cancel() by the other task
OtherAct(t) ==
    /\ futs[t].prog = "other_task" /\ At(t, "op_act")
    /\ inp.op # "acquire"
    /\ IF inp.op = "cancel"
       THEN LET k == IF scenario = "resource" THEN 1
                     ELSE futs[1].kids[futs[t].arg]
                r == Cancel(KS, k)
            IN  /\ Commit(Return([r.K EXCEPT
                              !.futs[k].early = ~futs[k].started,
                              !.futs[k].susp = Suspended(KS, k)], t, <<>>))
                /\ out' = Append(out, <<"cancel", futs[k].arg>>)
                /\ UNCHANGED <<lock, sem>>
       ELSE IF scenario = "lock_op"
       THEN LET r == LockRelease(KS, lock)
            IN  /\ lock' = r.lock
                /\ Commit(IF r.err # "" THEN Raise(r.K, t, r.err)
                          ELSE Return(r.K, t, <<>>))
                /\ out' = Append(out, <<IF r.err # "" THEN "release_error"
                                        ELSE "release_ok", 0>>)
                /\ sem' = sem
       ELSE LET r == SemRelease(KS, sem)
            IN  /\ sem' = r.sem
                /\ Commit(Return(r.K, t, <<>>))
                /\ out' = Append(out, <<"release_ok", 0>>)
                /\ lock' = lock
    /\ running' = 0
    /\ UNCHANGED <<scenario, inp, oop, gen, db, event, now, ntodo, timers, tseq, stopping>>

\* the other task arrives late at the lock: after its sleep it goes on as
\* critical_section(LateId), holding the lock for LateHold ticks
LateId == MinLockTasks + 1
LateHold == 1
OtherAcquire(t) ==
    /\ futs[t].prog = "other_task" /\ At(t, "op_act")
    /\ inp.op = "acquire"
    /\ futs' = [futs EXCEPT ![t].prog = "critical_section", ![t].pc = "start",
                            ![t].arg = LateId, ![t].d = LateHold]
    /\ UNCHANGED <<scenario, inp, oop, gen, db, event, completed, now, ready, ntodo,
                   timers, tseq, stopping, running, lock, sem, out>>

\* demonstrate_synchronization_primitives, Lock part:
\*   await asyncio.gather(critical_section(1), critical_section(2), ...)
MainLock ==
    /\ scenario \in {"lock", "lock_op"} /\ At(1, "start")
    /\ LET K0 == OpBefore(KS)
           K1 == OpAfter(SpawnAll(K0, "critical_section", inp.ds, 1))
           r == Gather(K1, 1, Spawned(K0, inp.ds), "main_end")
       IN  Commit([r.K EXCEPT !.futs[1].started = TRUE,
                              !.futs[1].kids = Spawned(K0, inp.ds)])
           /\ running' = r.run
    /\ UNCHANGED <<scenario, inp, oop, gen, db, event, now, ntodo, timers, tseq, stopping, lock, sem, out>>

\* critical_section: print "waiting for lock"; async with lock:
CsWaiting(t) ==
    /\ futs[t].prog = "critical_section" /\ At(t, "start")
    /\ out' = Append(out, <<"waiting", futs[t].arg>>)
    /\ futs' = [futs EXCEPT ![t].pc = "cs_acquire", ![t].started = TRUE]
    /\ UNCHANGED <<scenario, inp, oop, gen, db, event, completed, now, ready, ntodo, timers, tseq, stopping,
                   running, lock, sem>>

CsAcquire(t) ==
    /\ futs[t].prog = "critical_section" /\ At(t, "cs_acquire")
    /\ LockAcquire(t, "cs_in")
    /\ UNCHANGED <<scenario, inp, oop, gen, db, event, now, ntodo, timers, tseq, stopping, sem, out>>

\* print "acquired lock"; await asyncio.sleep(0.5)
CsIn(t) ==
    /\ futs[t].prog = "critical_section" /\ At(t, "cs_in")
    /\ out' = Append(out, <<"acquired", futs[t].arg>>)
    /\ Sleep(KS, t, futs[t].d, "cs_slept")
    /\ UNCHANGED <<scenario, inp, oop, gen, db, event, now, ntodo, stopping, lock, sem>>

\* the exception with which task t leaves the body of its `async with`:
\* the one thrown into its sleep, or the injected failure of the body
\* (inp.op = "fail": the body of the inp.target-th task raises after its
\* sleep; the bodies of the source do not raise)
BodyError(t) ==
    IF futs[t].thrown # "" THEN futs[t].thrown
    ELSE IF inp.op = "fail" /\ inp.target = futs[t].arg THEN "BodyError"
    ELSE ""

\* print "releasing lock"; Lock.__aexit__: release(); the coroutine ends
CsRelease(t) ==
    /\ futs[t].prog = "critical_section" /\ AtAny(t, "cs_slept")
    /\ LET r == LockRelease(KS, lock)
           e == BodyError(t)
       IN  /\ lock' = r.lock
           /\ Commit(IF r.err # "" THEN Raise(r.K, t, r.err)
                     ELSE IF e # "" THEN Raise(r.K, t, e)
                     ELSE Return(r.K, t, <<>>))
           /\ out' = IF e = "" THEN Append(out, <<"releasing", futs[t].arg>>)
                     ELSE out
    /\ running' = 0
    /\ UNCHANGED <<scenario, inp, oop, gen, db, event, now, ntodo, timers, tseq, stopping, sem>>

\* demonstrate_synchronization_primitives, Semaphore part:
\*   await asyncio.gather(worker(1), worker(2), worker(3), worker(4))
MainSem ==
    /\ scenario \in {"sem", "sem_op"} /\ At(1, "start")
    /\ LET K0 == OpBefore(KS)
           K1 == OpAfter(SpawnAll(K0, "worker", inp.ds, 1))
           r == Gather(K1, 1, Spawned(K0, inp.ds), "main_end")
       IN  Commit([r.K EXCEPT !.futs[1].started = TRUE,
                              !.futs[1].kids = Spawned(K0, inp.ds)])
           /\ running' = r.run
    /\ UNCHANGED <<scenario, inp, oop, gen, db, event, now, ntodo, timers, tseq, stopping, lock, sem, out>>

\* worker: print "waiting for semaphore"; async with semaphore:
WorkerWaiting(t) ==
    /\ futs[t].prog = "worker" /\ At(t, "start")
    /\ out' = Append(out, <<"waiting", futs[t].arg>>)
    /\ futs' = [futs EXCEPT ![t].pc = "w_acquire", ![t].started = TRUE]
    /\ UNCHANGED <<scenario, inp, oop, gen, db, event, completed, now, ready, ntodo, timers, tseq, stopping,
                   running, lock, sem>>

WorkerAcquire(t) ==
    /\ futs[t].prog = "worker" /\ At(t, "w_acquire")
    /\ SemAcquire(t, "w_in")
    /\ UNCHANGED <<scenario, inp, oop, gen, db, event, now, ntodo, timers, tseq, stopping, lock, out>>

\* print "acquired semaphore"; await asyncio.sleep(1)
WorkerIn(t) ==
    /\ futs[t].prog = "worker" /\ At(t, "w_in")
    /\ out' = Append(out, <<"acquired", futs[t].arg>>)
    /\ Sleep(KS, t, futs[t].d, "w_slept")
    /\ UNCHANGED <<scenario, inp, oop, gen, db, event, now, ntodo, stopping, lock, sem>>

\* print "releasing semaphore"; Semaphore.__aexit__: release()
WorkerRelease(t) ==
    /\ futs[t].prog = "worker" /\ AtAny(t, "w_slept")
    /\ LET r == SemRelease(KS, sem)
           e == BodyError(t)
       IN  /\ sem' = r.sem
           /\ Commit(IF e # "" THEN Raise(r.K, t, e) ELSE Return(r.K, t, <<>>))
           /\ out' = IF e = "" THEN Append(out, <<"releasing", futs[t].arg>>)
                     ELSE out
    /\ running' = 0
    /\ UNCHANGED <<scenario, inp, oop, gen, db, event, now, ntodo, timers, tseq, stopping, lock>>

\* demonstrate_synchronization_primitives, Event part:
\*   await asyncio.gather(waiter(1), waiter(2), setter())
MainEvent ==
    /\ scenario = "event" /\ At(1, "start")
    /\ LET n == inp.n
           K1 == SpawnAll(KS, "waiter", [i \in 1..n |-> 0], 1)
           K2 == CreateTask(K1, "setter", 0, inp.wait)
           kids == [i \in 1..(n + 1) |-> Len(futs) + i]
           r == Gather(K2, 1, kids, "main_end")
       IN  Commit([r.K EXCEPT !.futs[1].started = TRUE,
                              !.futs[1].kids = kids])
           /\ running' = r.run
    /\ UNCHANGED <<scenario, inp, oop, gen, db, event, now, ntodo, timers, tseq, stopping, lock, sem, out>>

\* waiter: print "waiting for event"; await event.wait()
WaiterWait(t) ==
    /\ futs[t].prog = "waiter" /\ At(t, "start")
    /\ out' = Append(out, <<"waiting", futs[t].arg>>)
    /\ LET s == [KS EXCEPT !.futs[t].started = TRUE] IN
       IF event.value
       THEN /\ Commit([s EXCEPT !.futs[t].pc = "ev_got"])
            /\ UNCHANGED <<event, running>>
       ELSE LET K1 == CreateFuture(s)
                f == Len(K1.futs)
                r == Await([K1 EXCEPT !.futs[t].lf = f,
                                      !.futs[t].ret = "ev_got"],
                           t, f, "event_wait")
            IN  /\ event' = [event EXCEPT !.waiters = Append(@, f)]
                /\ Commit(r.K)
                /\ running' = r.run
    /\ UNCHANGED <<scenario, inp, oop, gen, db, now, ntodo, timers, tseq, stopping, lock, sem>>

\* print "received event"
WaiterGot(t) ==
    /\ futs[t].prog = "waiter" /\ At(t, "ev_got")
    /\ out' = Append(out, <<"received", futs[t].arg>>)
    /\ Commit(Return(KS, t, <<>>))
    /\ running' = 0
    /\ UNCHANGED <<scenario, inp, oop, gen, db, event, now, ntodo, timers, tseq, stopping, lock, sem>>

\* setter: print "will set event in 1 second"; await asyncio.sleep(1)
EvSetterStart(t) ==
    /\ futs[t].prog = "setter" /\ At(t, "start")
    /\ Sleep([KS EXCEPT !.futs[t].started = TRUE], t, futs[t].d, "ev_set")
    /\ UNCHANGED <<scenario, inp, oop, gen, db, event, now, ntodo, stopping, lock, sem, out>>

\* print "setting event"; event.set()
\* (inp.op = "clear": followed by event.clear(), which the source does not call)
EvSetterSet(t) ==
    /\ futs[t].prog = "setter" /\ At(t, "ev_set")
    /\ out' = Append(out, <<"setting", 0>>)
    /\ LET r == EventSet(KS, event)
       IN  /\ event' = IF inp.op = "clear" THEN EventClear(r.event)
                       ELSE r.event
           /\ Commit(Return(r.K, t, <<>>))
    /\ running' = 0
    /\ UNCHANGED <<scenario, inp, oop, gen, db, now, ntodo, timers, tseq, stopping, lock, sem>>

\* demonstrate_async_iterators_generators: the entry task runs
\*   counter = AsyncCounter(3)                        (inp.n for 3)
\*   async for value in counter: print(value)
\* and then calls __anext__ inp.wait more times, which the source does not.
MainIter ==
    /\ scenario = "iterator" /\ At(1, "start")
    /\ gen' = [gen EXCEPT !.current = 0, !.stop = inp.n]
    /\ futs' = [futs EXCEPT ![1].pc = "it_next", ![1].started = TRUE]
    /\ UNCHANGED <<scenario, inp, oop, db, event, completed, now, ready, ntodo,
                   timers, tseq, stopping, running, lock, sem, out>>

\* (a counter that never ends)
AnextReadyAlways(g) == TRUE

\* AsyncCounter.__anext__: if self.current < self.stop
AnextReady(g) == g.current < g.stop

\* the StopAsyncIteration raised so far
Exhaustions == Len(SelectSeq(out, LAMBDA e : e[1] = "exhausted"))

\* __anext__ is called: await asyncio.sleep(0.2), or raise
\* StopAsyncIteration, which ends the loop (and, after the last of the
\* further calls, the coroutine)
CounterAnext ==
    /\ scenario = "iterator" /\ At(1, "it_next")
    /\ IF AnextReady(gen)
       THEN /\ Sleep(KS, 1, inp.ds[1], "it_slept")
            /\ out' = out
       ELSE /\ out' = Append(out, <<"exhausted", Exhaustions + 1>>)
            /\ IF Exhaustions < inp.wait
               THEN UNCHANGED <<futs, ready, completed, running, timers, tseq>>
               ELSE /\ Commit(Return(KS, 1, <<>>))
                    /\ running' = 0
                    /\ UNCHANGED <<timers, tseq>>
    /\ UNCHANGED <<scenario, inp, oop, gen, db, event, now, ntodo, stopping, lock, sem>>

\* self.current += 1; return self.current - 1; print "Iterator value"
CounterAnextResume ==
    /\ scenario = "iterator" /\ At(1, "it_slept")
    /\ gen' = [gen EXCEPT !.current = @ + 1]
    /\ out' = Append(out, <<"iter", gen.current>>)
    /\ futs' = [futs EXCEPT ![1].pc = "it_next"]
    /\ UNCHANGED <<scenario, inp, oop, db, event, completed, now, ready, ntodo,
                   timers, tseq, stopping, running, lock, sem>>

\* demonstrate_async_context_managers: the entry task runs
\*   async with AsyncResource() as resource: ..          (manager 1)
\*   async with async_resource_decorator() as resource: ..   (manager 2)
\* futs[1].arg is the manager in use.
\* __aenter__: print "Acquiring resource"; await asyncio.sleep(0.5)
ResAcquire(K, o, m) ==
    /\ out' = Append(o, <<"acquiring", m>>)
    /\ Sleep([K EXCEPT !.futs[1].arg = m, !.futs[1].started = TRUE,
                       !.futs[1].pend = ""], 1, inp.ds[1], "r_entered")

\* (inp.op = "cancel": one more task, which the source does not have,
\* calls cancel() on the entry task after inp.wait ticks)
MainRes ==
    /\ scenario = "resource" /\ At(1, "start")
    /\ ResAcquire(IF inp.op = "cancel"
                  THEN CreateTask(KS, "other_task", 1, inp.wait) ELSE KS,
                  out, 1)
    /\ UNCHANGED <<scenario, inp, oop, gen, db, event, now, ntodo, stopping, lock, sem>>

\* print "Resource acquired"; the body: print "Using"; await asyncio.sleep(0.5)
ResEntered ==
    /\ scenario = "resource" /\ At(1, "r_entered")
    /\ out' = Append(out, <<"acquired", futs[1].arg>>)
    /\ Sleep(KS, 1, inp.ds[2], "r_body")
    /\ UNCHANGED <<scenario, inp, oop, gen, db, event, now, ntodo, stopping, lock, sem>>

\* the body is left, with or without an exception: __aexit__ / finally:
\* print "Releasing resource"; await asyncio.sleep(0.5)
ResRelease ==
    /\ scenario = "resource" /\ AtAny(1, "r_body")
    /\ out' = Append(out, <<"releasing", futs[1].arg>>)
    /\ Sleep([KS EXCEPT !.futs[1].pend = BodyError(1),
                        !.futs[1].thrown = ""], 1, inp.ds[3], "r_exit")
    /\ UNCHANGED <<scenario, inp, oop, gen, db, event, now, ntodo, stopping, lock, sem>>

\* print "Resource released"; return False: the exception goes on; after
\* manager 1 comes manager 2
ResReleased ==
    /\ scenario = "resource" /\ At(1, "r_exit")
    /\ IF futs[1].pend # ""
       THEN /\ out' = Append(out, <<"released", futs[1].arg>>)
            /\ Commit(Raise(KS, 1, futs[1].pend))
            /\ running' = 0
            /\ UNCHANGED <<timers, tseq>>
       ELSE IF futs[1].arg = 1
       THEN ResAcquire(KS, Append(out, <<"released", 1>>), 2)
       ELSE /\ out' = Append(out, <<"released", futs[1].arg>>)
            /\ Commit(Return(KS, 1, <<>>))
            /\ running' = 0
            /\ UNCHANGED <<timers, tseq>>
    /\ UNCHANGED <<scenario, inp, oop, gen, db, event, now, ntodo, stopping, lock, sem>>

\* asyncio.sleep(0) in task t, continuing at L: a bare yield, after which
\* Task.__step puts itself back on the ready queue
Sleep0(t, L) ==
    /\ Commit([KS EXCEPT !.futs[t].pc = L, !.ready = Append(@, H("step", t, 0))])
    /\ running' = 0
    /\ UNCHANGED <<timers, tseq>>

\* the error a failing fetch of id i raises.  fetch_data as written always
\* returns; a fetch whose id is in inp.fails is an injected failure of the
\* remote source it simulates, and inp.fails = {} is the source's case
FetchError(i) == <<"FetchError1", "FetchError2", "FetchError3">>[i]

\* fetch_data: print "Fetching data"; await asyncio.sleep(delay)
FetchStart(t) ==
    /\ futs[t].prog = "fetch_data" /\ At(t, "start")
    /\ out' = Append(out, <<"fetching", futs[t].arg>>)
    /\ Sleep([KS EXCEPT !.futs[t].started = TRUE], t, futs[t].d, "fd_slept")
    /\ UNCHANGED <<scenario, inp, oop, gen, db, event, now, ntodo, stopping, lock, sem>>

\* print "Data fetched"; return {"id": id, ..}
\* (the simulated remote source may fail instead: inp.fails)
FetchReturn(t) ==
    /\ futs[t].prog = "fetch_data" /\ At(t, "fd_slept")
    /\ IF futs[t].arg \in inp.fails
       THEN /\ Commit(Raise(KS, t, FetchError(futs[t].arg)))
            /\ out' = out
       ELSE /\ Commit(Return(KS, t, <<futs[t].arg>>))
            /\ out' = Append(out, <<"fetched", futs[t].arg>>)
    /\ running' = 0
    /\ UNCHANGED <<scenario, inp, oop, gen, db, event, now, ntodo, timers, tseq, stopping, lock, sem>>

\* demonstrate_tasks, "Creating multiple tasks":
\*   tasks = [asyncio.create_task(fetch_data(i, uniform(0.5, 1.5))) ..]
MainTasks ==
    /\ scenario = "tasks" /\ At(1, "start")
    /\ Commit([SpawnAll(KS, "fetch_data", inp.ds, 1) EXCEPT
                   !.futs[1].kids = Spawned(KS, inp.ds),
                   !.futs[1].started = TRUE,
                   !.futs[1].pc = "t_gather"])
    /\ UNCHANGED <<scenario, inp, oop, gen, db, event, now, ntodo, timers, tseq, stopping, running,
                   lock, sem, out>>

\*   results = await asyncio.gather(*tasks)
MainTasksGather ==
    /\ scenario = "tasks" /\ At(1, "t_gather")
    /\ LET r == Gather(KS, 1, futs[1].kids, "main_end")
       IN  Commit(r.K) /\ running' = r.run
    /\ UNCHANGED <<scenario, inp, oop, gen, db, event, now, ntodo, timers, tseq, stopping, lock, sem, out>>

\* demonstrate_tasks, "Task cancellation":
\*   task = asyncio.create_task(fetch_data(10, 2.0))
MainCancelCreate ==
    /\ scenario = "cancel" /\ At(1, "start")
    /\ Commit([CreateTask(KS, "fetch_data", LongFetchId, LongFetch) EXCEPT
                   !.futs[1].kids = <<Len(futs) + 1>>,
                   !.futs[1].started = TRUE,
                   !.futs[1].pc = "c_wait"])
    /\ UNCHANGED <<scenario, inp, oop, gen, db, event, now, ntodo, timers, tseq, stopping, running,
                   lock, sem, out>>

\*   await asyncio.sleep(0.5)      (inp.wait ticks; -1: no await at all)
MainCancelWait ==
    /\ scenario = "cancel" /\ At(1, "c_wait")
    /\ IF inp.wait > 0 THEN Sleep(KS, 1, inp.wait, "c_cancel")
       ELSE IF inp.wait = 0 THEN Sleep0(1, "c_cancel")
       ELSE /\ Commit([KS EXCEPT !.futs[1].pc = "c_cancel"])
            /\ UNCHANGED <<running, timers, tseq>>
    /\ UNCHANGED <<scenario, inp, oop, gen, db, event, now, ntodo, stopping, lock, sem, out>>

\*   task.cancel()      (inp.n calls in a row; the source makes one)
MainCancel ==
    /\ scenario = "cancel" /\ At(1, "c_cancel")
    /\ LET k == futs[1].kids[1]
       IN  Commit([CancelTimes(KS, k, inp.n) EXCEPT !.futs[1].pc = "c_await",
                              !.futs[k].early = ~futs[k].started,
                              !.futs[k].susp = Suspended(KS, k)])
    /\ UNCHANGED <<scenario, inp, oop, gen, db, event, now, ntodo, timers, tseq, stopping, running,
                   lock, sem, out>>

\*   try: await task
MainCancelAwait ==
    /\ scenario = "cancel" /\ At(1, "c_await")
    /\ LET r == Await(KS, 1, futs[1].kids[1], "c_awaited")
       IN  Commit(r.K) /\ running' = r.run
    /\ UNCHANGED <<scenario, inp, oop, gen, db, event, now, ntodo, timers, tseq, stopping, lock, sem, out>>

\*   except asyncio.CancelledError: print("Task was cancelled")
MainCancelAwaited ==
    /\ scenario = "cancel" /\ AtAny(1, "c_awaited")
    /\ LET e == futs[1].thrown
       IN  /\ Commit(IF e \in {"", "CancelledError"}
                     THEN Return(KS, 1, <<>>) ELSE Raise(KS, 1, e))
           /\ out' = IF e = "CancelledError"
                     THEN Append(out, <<"cancelled", LongFetchId>>) ELSE out
    /\ running' = 0
    /\ UNCHANGED <<scenario, inp, oop, gen, db, event, now, ntodo, timers, tseq, stopping, lock, sem>>

\* demonstrate_futures:
\*   future = asyncio.Future(); asyncio.create_task(set_future_result())
MainFutCreate ==
    /\ scenario = "futures" /\ At(1, "start")
    /\ LET K1 == CreateFuture(KS)
       IN  Commit([SpawnAll(K1, "set_future_result", inp.setters, 1) EXCEPT
                       !.futs[1].uf = Len(K1.futs),
                       !.futs[1].started = TRUE,
                       !.futs[1].pc = "f_pre"])
    /\ UNCHANGED <<scenario, inp, oop, gen, db, event, now, ntodo, timers, tseq, stopping, running,
                   lock, sem, out>>

\* set_future_result: await asyncio.sleep(1)
SetterStart(t) ==
    /\ futs[t].prog = "set_future_result" /\ At(t, "start")
    /\ Sleep([KS EXCEPT !.futs[t].started = TRUE], t, futs[t].d, "sf_slept")
    /\ UNCHANGED <<scenario, inp, oop, gen, db, event, now, ntodo, stopping, lock, sem, out>>

\*   future.set_result("Future result"); print("Future result set")
\* (the result is the number of the setter, to tell two setters apart)
SetterSet(t) ==
    /\ futs[t].prog = "set_future_result" /\ At(t, "sf_slept")
    /\ LET r == FutureSetResult(KS, futs[1].uf, <<futs[t].arg>>)
       IN  IF r.err # ""
           THEN Commit(Raise(r.K, t, r.err)) /\ out' = out
           ELSE /\ Commit(Return(r.K, t, <<>>))
                /\ out' = Append(out, <<"set", futs[t].arg>>)
    /\ running' = 0
    /\ UNCHANGED <<scenario, inp, oop, gen, db, event, now, ntodo, timers, tseq, stopping, lock, sem>>

\* other work between create_task and the wait (inp.pre ticks; 0: none)
MainFutPre ==
    /\ scenario = "futures" /\ At(1, "f_pre")
    /\ IF inp.pre > 0 THEN Sleep(KS, 1, inp.pre, "f_wait")
       ELSE /\ Commit([KS EXCEPT !.futs[1].pc = "f_wait"])
            /\ UNCHANGED <<running, timers, tseq>>
    /\ UNCHANGED <<scenario, inp, oop, gen, db, event, now, ntodo, stopping, lock, sem, out>>

\*   result = await future                          (inp.timeout = 0)
\*   await asyncio.wait_for(future, timeout=0.5)    (inp.timeout > 0)
\* wait_for up to `await waiter`: the waiter, the timer that releases it,
\* and the done callback on the future that releases it
MainWaitFor ==
    /\ scenario = "futures" /\ At(1, "f_wait")
    /\ IF inp.timeout = 0
       THEN LET r == Await(KS, 1, futs[1].uf, "f_got")
            IN  Commit(r.K) /\ running' = r.run /\ UNCHANGED <<timers, tseq>>
       ELSE LET K1 == CreateFuture(KS)
                w == Len(K1.futs)
                K2 == AddDoneCallback(K1, futs[1].uf, Cb("release", w))
                r == Await([K2 EXCEPT !.futs[1].lf = w, !.futs[1].h = tseq + 1],
                           1, w, "wf_woke")
            IN  /\ Commit(r.K)
                /\ running' = r.run
                /\ timers' = timers \cup
                       {[when |-> CallLaterWhen(now, inp.timeout),
                         seq |-> tseq + 1, h |-> H("release", w, 0)]}
                /\ tseq' = tseq + 1
    /\ UNCHANGED <<scenario, inp, oop, gen, db, event, now, ntodo, stopping, lock, sem, out>>

\* what wait_for raises after it cancelled the future: TimeoutError for
\* CancelledError, else what the future holds
TimeoutOutcome(o) ==
    IF o.state = "CANCELLED" THEN "TimeoutError" ELSE Outcome(o)

\* (a wait_for that times out without cancelling the future)
WaitForGiveUpNoCancel(K, t, f, w) ==
    LET K1 == RemoveDoneCallback(K, f, Cb("release", w))
        K2 == CreateFuture(K1)
        w2 == Len(K2.futs)
    IN  Await([SetResult(K2, w2, <<>>) EXCEPT !.futs[t].lf = w2], t, w2,
              "wf_cancelled")

\* wait_for after the waiter woke with the future still pending:
\* fut.remove_done_callback(cb); await _cancel_and_wait(fut)
WaitForGiveUp(K, t, f, w) ==
    LET K1 == RemoveDoneCallback(K, f, Cb("release", w))
        K2 == CreateFuture(K1)
        w2 == Len(K2.futs)
        K3 == AddDoneCallback(K2, f, Cb("release", w2))
        K4 == Cancel(K3, f).K
    IN  Await([K4 EXCEPT !.futs[t].lf = w2], t, w2, "wf_cancelled")

\* wait_for after `await waiter`: a done future gives its result (and the
\* timer is cancelled); a pending one is cancelled and awaited
MainWaitForWoke ==
    /\ scenario = "futures" /\ At(1, "wf_woke")
    /\ LET f == futs[1].uf
       IN  IF Done(KS, f)
           THEN /\ Commit([KS EXCEPT !.futs[1].pc = "f_got",
                                     !.futs[1].thrown = Outcome(futs[f]),
                                     !.futs[1].val = futs[f].result,
                                     !.futs[1].h = 0])
                /\ timers' = CancelHandle(timers, futs[1].h)
                /\ running' = running
           ELSE LET r == WaitForGiveUp(KS, 1, f, futs[1].lf)
                IN  Commit(r.K) /\ running' = r.run /\ timers' = timers
    /\ UNCHANGED <<scenario, inp, oop, gen, db, event, now, ntodo, tseq, stopping, lock, sem, out>>

\* wait_for after _cancel_and_wait: fut.remove_done_callback(cb), then
\* fut.result() with CancelledError turned into TimeoutError;
\* finally: timeout_handle.cancel()
MainWaitForCancelled ==
    /\ scenario = "futures" /\ At(1, "wf_cancelled")
    /\ LET f == futs[1].uf
           K1 == RemoveDoneCallback(KS, f, Cb("release", futs[1].lf))
       IN  Commit([K1 EXCEPT !.futs[1].pc = "f_got",
                             !.futs[1].thrown = TimeoutOutcome(futs[f]),
                             !.futs[1].val = futs[f].result,
                             !.futs[1].h = 0])
    /\ timers' = CancelHandle(timers, futs[1].h)
    /\ UNCHANGED <<scenario, inp, oop, gen, db, event, now, ntodo, tseq, stopping, running, lock,
                   sem, out>>

\*   print(f"Future completed with result: {result}")
\*   except asyncio.TimeoutError: print("Future timed out")
MainFutGot ==
    /\ scenario = "futures" /\ AtAny(1, "f_got")
    /\ LET e == futs[1].thrown
       IN  /\ Commit(IF e \in {"", "TimeoutError"}
                     THEN Return(KS, 1, <<>>) ELSE Raise(KS, 1, e))
           /\ out' = IF e = "" THEN Append(out, <<"result", futs[1].val[1]>>)
                     ELSE IF e = "TimeoutError"
                     THEN Append(out, <<"timeout", 0>>)
                     ELSE out
    /\ running' = 0
    /\ UNCHANGED <<scenario, inp, oop, gen, db, event, now, ntodo, timers, tseq, stopping, lock, sem>>

\* demonstrate_basic_coroutines, "Running coroutines sequentially":
\*   start = time.time(); await asyncio.sleep(0.5)
MainBasicFirst ==
    /\ scenario = "basic" /\ At(1, "start")
    /\ Sleep([KS EXCEPT !.futs[1].t0 = now, !.futs[1].started = TRUE],
             1, inp.ds[1], "b_s1")
    /\ UNCHANGED <<scenario, inp, oop, gen, db, event, now, ntodo, stopping, lock, sem, out>>

\*   print("First sleep completed"); await asyncio.sleep(0.5)
MainBasicSecond ==
    /\ scenario = "basic" /\ At(1, "b_s1")
    /\ Sleep(KS, 1, inp.ds[2], "b_s2")
    /\ out' = Append(out, <<"slept", 1>>)
    /\ UNCHANGED <<scenario, inp, oop, gen, db, event, now, ntodo, stopping, lock, sem>>

\*   end = time.time(); print(f"Sequential execution took {end - start}")
\*   start = time.time()
\*   await asyncio.gather(asyncio.sleep(0.5), asyncio.sleep(0.5))
MainBasicGather ==
    /\ scenario = "basic" /\ At(1, "b_s2")
    /\ out' = Append(out, <<"sequential", now - futs[1].t0>>)
    /\ LET K1 == SpawnAll([KS EXCEPT !.futs[1].t0 = now], "sleep", inp.ds, 1)
           r == Gather(K1, 1, Spawned(KS, inp.ds), "b_g")
       IN  Commit(r.K) /\ running' = r.run
    /\ UNCHANGED <<scenario, inp, oop, gen, db, event, now, ntodo, timers, tseq, stopping, lock, sem>>

\*   end = time.time(); print(f"Concurrent execution took {end - start}")
MainBasicEnd ==
    /\ scenario = "basic" /\ At(1, "b_g")
    /\ out' = Append(out, <<"concurrent", now - futs[1].t0>>)
    /\ Commit(Return(KS, 1, <<>>))
    /\ running' = 0
    /\ UNCHANGED <<scenario, inp, oop, gen, db, event, now, ntodo, timers, tseq, stopping, lock, sem>>

\* asyncio.sleep(d) run as a task of its own by gather
SleepTaskStart(t) ==
    /\ futs[t].prog = "sleep" /\ At(t, "start")
    /\ Sleep([KS EXCEPT !.futs[t].started = TRUE], t, futs[t].d, "sl_done")
    /\ UNCHANGED <<scenario, inp, oop, gen, db, event, now, ntodo, stopping, lock, sem, out>>

SleepTaskDone(t) ==
    /\ futs[t].prog = "sleep" /\ At(t, "sl_done")
    /\ Commit(Return(KS, t, <<>>))
    /\ running' = 0
    /\ UNCHANGED <<scenario, inp, oop, gen, db, event, now, ntodo, timers, tseq, stopping, lock, sem, out>>

\* the entry coroutine ends: it returns what it awaited, or raises
MainEnd ==
    /\ AtAny(1, "main_end")
    /\ Commit(IF futs[1].thrown # "" THEN Raise(KS, 1, futs[1].thrown)
              ELSE Return(KS, 1, futs[1].val))
    /\ running' = 0
    /\ UNCHANGED <<scenario, inp, oop, gen, db, event, now, ntodo, timers, tseq, stopping, lock, sem, out>>

\* an exception thrown into a coroutine at a point with no handler ends
\* the task (Task.__step: cancel() or set_exception())
\* (the labels with a handler when `async with` has no exit path for
\* exceptions)
HandledAtNoExit == {"sleep_wait", "lock_wait", "sem_wait", "event_wait",
                    "main_end", "c_awaited", "f_got"}

\* (the body of the resource managers is not guarded)
HandledAtNoBody == {"sleep_wait", "lock_wait", "sem_wait", "event_wait",
                    "cs_slept", "w_slept", "main_end", "c_awaited", "f_got"}

HandledAt == {"sleep_wait", "lock_wait", "sem_wait", "event_wait", "cs_slept",
              "w_slept", "r_body", "main_end", "c_awaited", "f_got"}
Unhandled(t) ==
    /\ running = t /\ futs[t].thrown # "" /\ futs[t].pc \notin HandledAt
    /\ Commit(Raise(KS, t, futs[t].thrown))
    /\ running' = 0
    /\ UNCHANGED <<scenario, inp, oop, gen, db, event, now, ntodo, timers, tseq, stopping, lock, sem, out>>

\* ------------------------------------------------------------ generators
\* demonstrate_generators, "Generator pipeline", in src/core/functions.py.
\* A generator is "new", "suspended" at its yield, or "done"; i is the
\* next value of range(n) in pipeline_generator.
NewGen == [i |-> 0, src |-> "new", dbl |-> "new", add |-> "new",
           loop |-> "iterating",
           \* AsyncCounter of async_programming.py
           current |-> 0, stop |-> 0]

\* next() of pipeline_generator: for i in range(n): yield i
\* the answer is [g, stop, val]
SourceNext(g, n) ==
    IF g.src # "done" /\ g.i < n
    THEN [g |-> [g EXCEPT !.src = "suspended", !.i = @ + 1],
          stop |-> FALSE, val |-> g.i]
    ELSE [g |-> [g EXCEPT !.src = "done"], stop |-> TRUE, val |-> 0]

\* (a doubling that adds instead)
DoubleValuePlus(x) == x + 2

\* yield num * 2
DoubleValue(x) == x * 2

\* next() of double_generator: for num in gen: yield num * 2
DoubleNext(g, n) ==
    IF g.dbl = "done" THEN [g |-> g, stop |-> TRUE, val |-> 0]
    ELSE LET r == SourceNext(g, n)
         IN  IF r.stop
             THEN [g |-> [r.g EXCEPT !.dbl = "done"], stop |-> TRUE, val |-> 0]
             ELSE [g |-> [r.g EXCEPT !.dbl = "suspended"], stop |-> FALSE,
                   val |-> DoubleValue(r.val)]

\* next() of add_one_generator: for num in gen: yield num + 1
AddOneNext(g, n) ==
    IF g.add = "done" THEN [g |-> g, stop |-> TRUE, val |-> 0]
    ELSE LET r == DoubleNext(g, n)
         IN  IF r.stop
             THEN [g |-> [r.g EXCEPT !.add = "done"], stop |-> TRUE, val |-> 0]
             ELSE [g |-> [r.g EXCEPT !.add = "suspended"], stop |-> FALSE,
                   val |-> r.val + 1]

\* for result in pipeline: print(result)
PipelineFor ==
    /\ scenario = "pipeline" /\ gen.loop = "iterating"
    /\ LET r == AddOneNext(gen, inp.n)
       IN  IF r.stop
           THEN gen' = [r.g EXCEPT !.loop = "done"] /\ out' = out
           ELSE gen' = r.g /\ out' = Append(out, <<"pipe", r.val>>)
    /\ UNCHANGED <<scenario, inp, oop, db, event, now, ready, ntodo, timers, tseq, stopping,
                   futs, running, lock, sem, completed>>

\* ------------------------------------------------------------ MockDatabase
\* MockDatabase of src/best_practices/testing/test_fixtures.py.  A document
\* is a function from its keys to values; a query is [none, items], none
\* for find(collection) without a query.
Collections == {"users", "products"}
Vals == {1, 2}
Keys == {"price", "id"}

\* the documents a caller inserts: with or without a price, with or without
\* an id of the caller's own
Documents == UNION {[S -> Vals] : S \in SUBSET Keys}

Queries ==
    {[none |-> TRUE, items |-> <<>>]}
    \cup {[none |-> FALSE, items |-> f] : f \in Documents}

\* MockDatabase.__init__: self.data = {}.  cols are the keys of self.data,
\* data[c] the list of a collection (empty for a collection that is no
\* key); id is what the last call returned if it was an insert and 0
\* otherwise, res what it returned if it was a find and empty otherwise;
\* log is the (collection, document) arguments of the inserts so far
NewDb == [data |-> [c \in Collections |-> <<>>], cols |-> {},
          res |-> <<>>, id |-> 0, log |-> <<>>]

\* document_copy = document.copy(); document_copy["id"] = ...
WithId(document, n) ==
    [k \in DOMAIN document \cup {"id"} |->
        IF k = "id" THEN n ELSE document[k]]

\* MockDatabase.insert: the new database and the id it returns
Insert(D, collection, document) ==
    LET data == IF collection \in D.cols THEN D.data[collection] ELSE <<>>
        copy == WithId(document, Len(data) + 1)
    IN  [D EXCEPT !.data[collection] = Append(data, copy),
                  !.cols = @ \cup {collection},
                  !.id = copy["id"], !.res = <<>>,
                  !.log = Append(@, [c |-> collection, doc |-> document])]

\* (a match that passes over the keys a document does not have)
MatchPresentKeys(doc, items) ==
    \A key \in DOMAIN items : key \in DOMAIN doc => doc[key] = items[key]

\* the inner loop of find: match stays True unless a key of the query is
\* missing in doc or has another value
Match(doc, items) ==
    ~ \E key \in DOMAIN items : key \notin DOMAIN doc \/ doc[key] # items[key]

\* the outer loop of find over self.data[collection] from position i
RECURSIVE FindFrom(_, _, _)
FindFrom(docs, items, i) ==
    IF i > Len(docs) THEN <<>>
    ELSE IF Match(docs[i], items)
         THEN <<docs[i]>> \o FindFrom(docs, items, i + 1)
         ELSE FindFrom(docs, items, i + 1)

\* MockDatabase.find: what it returns
Find(D, collection, query) ==
    IF collection \notin D.cols THEN <<>>
    ELSE IF query.none THEN D.data[collection]
    ELSE FindFrom(D.data[collection], query.items, 1)

\* a call of insert, as populated_db makes them
DbInsert(collection, document) ==
    /\ scenario = "db" /\ Len(db.log) < MaxInserts
    /\ db' = Insert(db, collection, document)
    /\ UNCHANGED <<scenario, inp, oop, gen, event, now, ready, ntodo, timers, tseq,
                   stopping, futs, running, lock, sem, out, completed>>

\* a call of find, as test_find_users and test_find_products_by_price make
\* them
DbFind(collection, query) ==
    /\ scenario = "db"
    /\ db' = [db EXCEPT !.res = Find(db, collection, query), !.id = 0]
    /\ UNCHANGED <<scenario, inp, oop, gen, event, now, ready, ntodo, timers, tseq,
                   stopping, futs, running, lock, sem, out, completed>>

\* ------------------------------------------------- oop_advanced.py
\* SingletonMeta._instances maps a class to its instance (0: no entry);
\* heap holds the instances created, refs the results of the constructor
\* calls (s1, s2, ..), hist the calls and assignments made so far.
MetaClasses == {"Singleton"}
InitArgs == {"First", "Second", ""}
NewValues == {"Changed", "Again"}

\* a float or int of Python: a number, or NaN
Num(n) == [nan |-> FALSE, v |-> n]
NaN == [nan |-> TRUE, v |-> 0]
Numbers == {Num(n) : n \in {-100, 0, 2, 10, 100, 110}} \cup {NaN}
Zero == Num(0)
Hundred == Num(100)

\* a <= b and a > b of Python numbers: every comparison with NaN is False
Le(a, b) == ~a.nan /\ ~b.nan /\ a.v <= b.v
Gt(a, b) == ~a.nan /\ ~b.nan /\ a.v > b.v

NoProduct == [made |-> FALSE, price |-> Zero, quantity |-> Zero,
              discount |-> Zero]

NewOop == [instances |-> [c \in MetaClasses |-> 0], heap |-> <<>>,
           refs |-> <<>>, hist |-> <<>>, product |-> NoProduct, err |-> ""]

\* (a test that finds no class registered)
NotInInstancesAlways(O, cls) == TRUE

\* SingletonMeta.__call__: if cls not in cls._instances
NotInInstances(O, cls) == O.instances[cls] = 0

\* SingletonMeta.__call__(cls, value): the answer is [O, ret]
SingletonMetaCall(O, cls, value) ==
    LET O1 == IF NotInInstances(O, cls)
              THEN [O EXCEPT !.heap = Append(@, [cls |-> cls, value |-> value]),
                             !.instances[cls] = Len(O.heap) + 1]
              ELSE O
    IN  [O |-> O1, ret |-> O1.instances[cls]]

\* s = Singleton(value)       ("" is the default of __init__)
SingletonNew(value) ==
    /\ scenario = "singleton" /\ Len(oop.hist) < MaxOps
    /\ LET r == SingletonMetaCall(oop, "Singleton", value)
       IN  oop' = [r.O EXCEPT !.refs = Append(@, r.ret),
                              !.hist = Append(@, <<"call", value>>)]
    /\ UNCHANGED <<scenario, inp, now, ready, ntodo, timers, tseq, stopping,
                   futs, running, lock, sem, out, completed, gen, event, db>>

\* s.value = value, through the i-th reference
SingletonSetValue(i, value) ==
    /\ scenario = "singleton" /\ Len(oop.hist) < MaxOps
    /\ i \in 1..Len(oop.refs)
    /\ oop' = [oop EXCEPT !.heap[oop.refs[i]].value = value,
                          !.hist = Append(@, <<"set", value>>)]
    /\ UNCHANGED <<scenario, inp, now, ready, ntodo, timers, tseq, stopping,
                   futs, running, lock, sem, out, completed, gen, event, db>>

\* PositiveNumber.__set__: if value <= 0: raise ValueError
PositiveRejects(value) == Le(value, Zero)

\* Product.discount.setter: if not 0 <= value <= 100: raise ValueError
DiscountRejects(value) == ~(Le(Zero, value) /\ Le(value, Hundred))

\* product = Product(name, price, quantity)
ProductInit(price, quantity) ==
    /\ scenario = "product" /\ Len(oop.hist) < MaxOps
    /\ ~oop.product.made
    /\ IF PositiveRejects(price) \/ PositiveRejects(quantity)
       THEN oop' = [oop EXCEPT !.err = "ValueError",
                               !.hist = Append(@, <<"new", "ValueError">>)]
       ELSE oop' = [oop EXCEPT !.err = "",
                               !.hist = Append(@, <<"new", "">>),
                               !.product = [made |-> TRUE, price |-> price,
                                            quantity |-> quantity,
                                            discount |-> Zero]]
    /\ UNCHANGED <<scenario, inp, now, ready, ntodo, timers, tseq, stopping,
                   futs, running, lock, sem, out, completed, gen, event, db>>

\* product.price = value
ProductSetPrice(value) ==
    /\ scenario = "product" /\ Len(oop.hist) < MaxOps
    /\ oop.product.made
    /\ IF PositiveRejects(value)
       THEN oop' = [oop EXCEPT !.err = "ValueError",
                               !.hist = Append(@, <<"price", "ValueError">>)]
       ELSE oop' = [oop EXCEPT !.err = "", !.product.price = value,
                               !.hist = Append(@, <<"price", "">>)]
    /\ UNCHANGED <<scenario, inp, now, ready, ntodo, timers, tseq, stopping,
                   futs, running, lock, sem, out, completed, gen, event, db>>

\* product.quantity = value
ProductSetQuantity(value) ==
    /\ scenario = "product" /\ Len(oop.hist) < MaxOps
    /\ oop.product.made
    /\ IF PositiveRejects(value)
       THEN oop' = [oop EXCEPT !.err = "ValueError",
                               !.hist = Append(@, <<"quantity", "ValueError">>)]
       ELSE oop' = [oop EXCEPT !.err = "", !.product.quantity = value,
                               !.hist = Append(@, <<"quantity", "">>)]
    /\ UNCHANGED <<scenario, inp, now, ready, ntodo, timers, tseq, stopping,
                   futs, running, lock, sem, out, completed, gen, event, db>>

\* product.discount = value
ProductSetDiscount(value) ==
    /\ scenario = "product" /\ Len(oop.hist) < MaxOps
    /\ oop.product.made
    /\ IF DiscountRejects(value)
       THEN oop' = [oop EXCEPT !.err = "ValueError",
                               !.hist = Append(@, <<"discount", "ValueError">>)]
       ELSE oop' = [oop EXCEPT !.err = "", !.product.discount = value,
                               !.hist = Append(@, <<"discount", "">>)]
    /\ UNCHANGED <<scenario, inp, now, ready, ntodo, timers, tseq, stopping,
                   futs, running, lock, sem, out, completed, gen, event, db>>

\* ------------------------------------------------------------------ Init

Delays == 1..MaxDelay
DelaySeqs(n) == [1..n -> Delays]

\* the arguments of a demonstration; the fields one does not use are idle
NoInp == [ds |-> <<>>, fails |-> {}, wait |-> 0, setters |-> <<>>,
          timeout |-> 0, pre |-> 0, n |-> 0, op |-> "none", target |-> 1]

\* a primitive with MinLockTasks gathered tasks and the other task
OpInputs ==
    {[NoInp EXCEPT !.ds = ds, !.op = "release", !.wait = w] :
        ds \in DelaySeqs(MinLockTasks), w \in -1..MaxOpWait}
    \cup
    {[NoInp EXCEPT !.ds = ds, !.op = "cancel", !.wait = w, !.target = k] :
        ds \in DelaySeqs(MinLockTasks), w \in 0..MaxOpWait,
        k \in 1..MinLockTasks}
    \cup
    {[NoInp EXCEPT !.ds = ds, !.op = "fail", !.target = k] :
        ds \in DelaySeqs(MinLockTasks), k \in 1..MinLockTasks}

\* the lock with MinLockTasks gathered tasks and a late critical section
LateInputs ==
    {[NoInp EXCEPT !.ds = ds, !.op = "acquire", !.wait = w] :
        ds \in DelaySeqs(MinLockTasks), w \in 0..MaxOpWait}

Inputs(s) ==
    IF s = "lock"
    THEN {[NoInp EXCEPT !.ds = ds] :
             ds \in UNION {DelaySeqs(n) : n \in MinLockTasks..MaxLockTasks}}
    ELSE IF s = "sem"
    THEN {[NoInp EXCEPT !.ds = ds] :
             ds \in UNION {DelaySeqs(n) : n \in 1..MaxWorkers}}
    ELSE IF s = "tasks"
    THEN {[NoInp EXCEPT !.ds = ds, !.fails = fs] :
             ds \in [1..NumFetch -> 1..MaxFetchDelay],
             fs \in SUBSET (1..NumFetch)}
    ELSE IF s = "cancel"
    THEN {[NoInp EXCEPT !.wait = w, !.n = n] :
             w \in -1..MaxCancelWait, n \in 1..MaxCancels}
    ELSE IF s = "futures"
    THEN {[NoInp EXCEPT !.setters = ss, !.timeout = t, !.pre = p] :
             ss \in UNION {[1..n -> 1..MaxSetDelay] : n \in 0..MaxSetters},
             t \in 0..MaxTimeout, p \in 0..MaxPre}
    ELSE IF s = "lock_op"
    THEN OpInputs \cup LateInputs
    ELSE IF s = "sem_op"
    THEN OpInputs
    ELSE IF s = "resource"
    THEN {[NoInp EXCEPT !.ds = ds, !.op = o, !.target = k] :
             ds \in DelaySeqs(3), o \in {"none", "fail"}, k \in 1..2}
         \cup
         {[NoInp EXCEPT !.ds = ds, !.op = "cancel", !.wait = w] :
             ds \in DelaySeqs(3), w \in 0..MaxResWait}
    ELSE IF s = "event"
    THEN {[NoInp EXCEPT !.n = n, !.wait = d, !.op = o] :
             n \in MinWaiters..MaxWaiters, d \in Delays, o \in {"none", "clear"}}
    ELSE IF s = "basic"
    THEN {[NoInp EXCEPT !.ds = ds] : ds \in DelaySeqs(2)}
    ELSE IF s = "iterator"
    THEN {[NoInp EXCEPT !.n = n, !.wait = e, !.ds = ds] :
             n \in 0..MaxStop, e \in 0..MaxExtra, ds \in DelaySeqs(1)}
    ELSE {[NoInp EXCEPT !.n = n] : n \in 0..MaxSource}

Scenarios == {"lock", "sem", "tasks", "cancel", "futures", "basic", "pipeline",
              "lock_op", "sem_op", "event", "resource", "iterator"}

\* asyncio.run(entry): the entry task is created, its first step is ready,
\* and run_until_complete has added its done callback; the generator
\* pipeline runs without a loop
Init ==
    /\ scenario \in Scenarios
    /\ inp \in Inputs(scenario)
    /\ now = 0
    /\ futs = IF scenario = "pipeline" THEN <<>>
              ELSE <<[NewTask("main", 0, 0) EXCEPT !.cbs = <<Cb("stop", 0)>>]>>
    /\ ready = IF scenario = "pipeline" THEN <<>> ELSE <<H("step", 1, 0)>>
    /\ ntodo = 0
    /\ timers = {}
    /\ tseq = 0
    /\ stopping = FALSE
    /\ running = 0
    /\ lock = [locked |-> FALSE, waiters |-> <<>>]
    /\ sem = [value |-> SemCapacity, waiters |-> <<>>]
    /\ out = <<>>
    /\ completed = <<>>
    /\ gen = NewGen
    /\ event = [value |-> FALSE, waiters |-> <<>>]
    /\ db = NewDb
    /\ oop = NewOop

Next ==
    \/ RunOnce
    \/ RunStep
    \/ RunWakeup
    \/ RunTimerSet
    \/ RunGatherDone
    \/ RunRelease
    \/ RunStop
    \/ SleepResume
    \/ LockAcquireResume
    \/ SemAcquireResume
    \/ EventWaitResume
    \/ MainEvent
    \/ MainRes
    \/ MainIter
    \/ CounterAnext
    \/ CounterAnextResume
    \/ ResEntered
    \/ ResRelease
    \/ ResReleased
    \/ MainLock
    \/ MainSem
    \/ MainTasks
    \/ MainTasksGather
    \/ MainCancelCreate
    \/ MainCancelWait
    \/ MainCancel
    \/ MainCancelAwait
    \/ MainCancelAwaited
    \/ MainFutCreate
    \/ MainFutPre
    \/ MainWaitFor
    \/ MainWaitForWoke
    \/ MainWaitForCancelled
    \/ MainFutGot
    \/ MainBasicFirst
    \/ MainBasicSecond
    \/ MainBasicGather
    \/ MainBasicEnd
    \/ MainEnd
    \/ PipelineFor
    \/ \E t \in Tasks : SetterStart(t)
    \/ \E t \in Tasks : SetterSet(t)
    \/ \E t \in Tasks : SleepTaskStart(t)
    \/ \E t \in Tasks : SleepTaskDone(t)
    \/ \E t \in Tasks : FetchStart(t)
    \/ \E t \in Tasks : FetchReturn(t)
    \/ \E t \in Tasks : CsWaiting(t)
    \/ \E t \in Tasks : CsAcquire(t)
    \/ \E t \in Tasks : CsIn(t)
    \/ \E t \in Tasks : CsRelease(t)
    \/ \E t \in Tasks : WorkerWaiting(t)
    \/ \E t \in Tasks : WorkerAcquire(t)
    \/ \E t \in Tasks : WorkerIn(t)
    \/ \E t \in Tasks : WorkerRelease(t)
    \/ \E t \in Tasks : WaiterWait(t)
    \/ \E t \in Tasks : WaiterGot(t)
    \/ \E t \in Tasks : EvSetterStart(t)
    \/ \E t \in Tasks : EvSetterSet(t)
    \/ \E t \in Tasks : OtherStart(t)
    \/ \E t \in Tasks : OtherAct(t)
    \/ \E t \in Tasks : OtherAcquire(t)
    \/ \E t \in Tasks : Unhandled(t)

Spec == Init /\ [][Next]_vars

\* The tests of MockDatabase: a new database (the fixture mock_db), then
\* calls of insert and find; there is no loop and no task
DbInit ==
    /\ scenario = "db" /\ inp = NoInp
    /\ now = 0 /\ futs = <<>> /\ ready = <<>> /\ ntodo = 0
    /\ timers = {} /\ tseq = 0 /\ stopping = FALSE /\ running = 0
    /\ lock = [locked |-> FALSE, waiters |-> <<>>]
    /\ sem = [value |-> SemCapacity, waiters |-> <<>>]
    /\ out = <<>> /\ completed = <<>> /\ gen = NewGen
    /\ event = [value |-> FALSE, waiters |-> <<>>]
    /\ db = NewDb
    /\ oop = NewOop

DbNext ==
    \/ \E c \in Collections, d \in Documents : DbInsert(c, d)
    \/ \E c \in Collections, q \in Queries : DbFind(c, q)

DbSpec == DbInit /\ [][DbNext]_vars

\* the classes of oop_advanced.py, driven by any calls and assignments
OopInit ==
    /\ scenario \in {"singleton", "product"} /\ inp = NoInp
    /\ now = 0 /\ futs = <<>> /\ ready = <<>> /\ ntodo = 0
    /\ timers = {} /\ tseq = 0 /\ stopping = FALSE /\ running = 0
    /\ lock = [locked |-> FALSE, waiters |-> <<>>]
    /\ sem = [value |-> SemCapacity, waiters |-> <<>>]
    /\ out = <<>> /\ completed = <<>> /\ gen = NewGen
    /\ event = [value |-> FALSE, waiters |-> <<>>]
    /\ db = NewDb
    /\ oop = NewOop

OopNext ==
    \/ \E v \in InitArgs : SingletonNew(v)
    \/ \E i \in 1..MaxOps, v \in NewValues : SingletonSetValue(i, v)
    \/ \E p, q \in Numbers : ProductInit(p, q)
    \/ \E v \in Numbers : ProductSetPrice(v)
    \/ \E v \in Numbers : ProductSetQuantity(v)
    \/ \E v \in Numbers : ProductSetDiscount(v)

OopSpec == OopInit /\ [][OopNext]_vars

\* The synchronization demonstrations as the source runs them, under the
\* loop's scheduling: run_forever keeps calling _run_once, and a handle or
\* coroutine that can run does run.  The sleeps are those of the source:
\* 0.5 s (one tick) in critical_section and 1 s in worker and in setter.
SyncDelays == {1, 2}

SyncInit ==
    /\ Init /\ scenario \in {"lock", "sem", "event"} /\ inp.op = "none"
    /\ \A i \in 1..Len(inp.ds) : inp.ds[i] \in SyncDelays
    /\ scenario = "event" => inp.wait \in SyncDelays

SyncNext ==
    \/ RunOnce
    \/ RunStep
    \/ RunWakeup
    \/ RunTimerSet
    \/ RunGatherDone
    \/ RunStop
    \/ SleepResume
    \/ LockAcquireResume
    \/ SemAcquireResume
    \/ EventWaitResume
    \/ MainLock
    \/ MainSem
    \/ MainEvent
    \/ MainEnd
    \/ \E t \in Tasks : CsWaiting(t)
    \/ \E t \in Tasks : CsAcquire(t)
    \/ \E t \in Tasks : CsIn(t)
    \/ \E t \in Tasks : CsRelease(t)
    \/ \E t \in Tasks : WorkerWaiting(t)
    \/ \E t \in Tasks : WorkerAcquire(t)
    \/ \E t \in Tasks : WorkerIn(t)
    \/ \E t \in Tasks : WorkerRelease(t)
    \/ \E t \in Tasks : WaiterWait(t)
    \/ \E t \in Tasks : WaiterGot(t)
    \/ \E t \in Tasks : EvSetterStart(t)
    \/ \E t \in Tasks : EvSetterSet(t)

SyncSpec == SyncInit /\ [][SyncNext]_vars /\ WF_vars(SyncNext)

\* ------------------------------------------------------------ the claims
\* the ids printed with a tag, in print order
IdsOf(tag) ==
    LET es == SelectSeq(out, LAMBDA e : e[1] = tag)
    IN  [i \in 1..Len(es) |-> es[i][2]]

IsPrefix(s, t) == Len(s) <= Len(t) /\ \A i \in 1..Len(s) : s[i] = t[i]

TasksOf(prog) == {t \in Tasks : futs[t].prog = prog}
Finished(t) == futs[t].state # "PENDING"

\* the workers that hold a slot of the semaphore: acquire() has returned
\* (or the slot was handed to them by release()) and release() has not run
SemHolders ==
    {t \in TasksOf("worker") :
        \/ futs[t].pc \in {"sleep_wait", "w_slept"}
        \/ futs[t].pc = "w_in" /\ futs[t].thrown = ""
        \/ futs[t].pc = "sem_wait" /\ futs[futs[t].lf].state = "FINISHED"}

\* C1: with Semaphore(2) and up to 4 workers doing acquire -> sleep ->
\* release, in every reachable state at most 2 workers have acquired and
\* not yet released.
C1_SemaphoreBound ==
    scenario = "sem" => Cardinality(SemHolders) <= SemCapacity

\* 4 workers, one has released, two are inside and the last one waits
C1_Witness ==
    /\ scenario = "sem" /\ Len(inp.ds) = 4
    /\ \E t \in TasksOf("worker") : Finished(t)
    /\ Cardinality({t \in TasksOf("worker") : futs[t].pc = "sleep_wait"}) = 2
    /\ Len(sem.waiters) = 1

\* C2: under contention the lock is granted in the order of the acquire()
\* calls: the ids printed by "acquired lock" are, in order, a prefix of
\* the ids printed by "waiting for lock" (3 to 5 tasks).
C2_LockFifo ==
    scenario = "lock" => IsPrefix(IdsOf("acquired"), IdsOf("waiting"))

\* 5 tasks, all of which got the lock, 4 of them after waiting for it
C2_Witness ==
    /\ scenario = "lock" /\ Len(inp.ds) = 5
    /\ IdsOf("acquired") = <<1, 2, 3, 4, 5>>
    /\ IdsOf("waiting") = <<1, 2, 3, 4, 5>>

\* the user's Future of demonstrate_futures, and its setter tasks
UserFut == futs[1].uf
Printed(tag) == \E i \in 1..Len(out) : out[i][1] = tag

\* a future that is not pending keeps its state, result and exception
FutureFrozen ==
    \A f \in 1..Len(futs) :
        futs[f].state # "PENDING" =>
            /\ futs'[f].state = futs[f].state
            /\ futs'[f].result = futs[f].result
            /\ futs'[f].exc = futs[f].exc

\* a setter that has run either stored its value, or found the future
\* done and ended with InvalidStateError
SetterOutcome ==
    \A t \in TasksOf("set_future_result") :
        Finished(t) =>
            IF futs[t].exc = ""
            THEN futs[UserFut].state = "FINISHED"
                 /\ futs[UserFut].result = <<futs[t].arg>>
            ELSE futs[t].exc = "InvalidStateError"
                 /\ futs[UserFut].result # <<futs[t].arg>>

\* C3: set_result on a Future that is no longer pending (resolved or
\* cancelled) raises InvalidStateError and leaves the state and the stored
\* result unchanged; a future only ever leaves the pending state.
C3_SingleAssignment == [][FutureFrozen]_vars /\ []SetterOutcome

\* the second of two setters found the future resolved by the first
C3_Witness ==
    /\ scenario = "futures" /\ Len(inp.setters) = 2
    /\ UserFut # 0
    /\ futs[UserFut].state = "FINISHED"
    /\ \E t \in TasksOf("set_future_result") :
           Finished(t) /\ futs[t].exc = "InvalidStateError"

\* C4: a task cancelled before its first step ends cancelled and never
\* runs a line of its body ("Fetching data" is never printed).
C4_CancelBeforeStart ==
    \A t \in Tasks :
        futs[t].early =>
            /\ ~futs[t].started
            /\ <<"fetching", futs[t].arg>> \notin Range(out)
            /\ Finished(t) => futs[t].state = "CANCELLED"
            /\ Finished(1) => futs[t].state = "CANCELLED"

\* cancel() came before the first step, and the run is over
C4_Witness ==
    /\ scenario = "cancel" /\ stopping
    /\ \E t \in Tasks : futs[t].early /\ futs[t].state = "CANCELLED"
    /\ out = << <<"cancelled", LongFetchId>> >>

\* the children of the gather of demonstrate_tasks, in completion order
KidsCompleted ==
    SelectSeq(completed, LAMBDA f : f \in Range(futs[1].kids))

\* C5: when every task succeeds, gather's result holds the result of the
\* i-th task at position i, whatever the order in which they completed.
C5_GatherOrder ==
    scenario = "tasks" /\ Finished(1) /\ futs[1].exc = "" =>
        futs[1].result = [i \in 1..NumFetch |-> i]

\* the three tasks completed in the reverse of the argument order
C5_Witness ==
    /\ scenario = "tasks" /\ Finished(1)
    /\ futs[1].result = <<1, 2, 3>>
    /\ KidsCompleted = <<futs[1].kids[3], futs[1].kids[2], futs[1].kids[1]>>

\* no task waits for f, no callback is registered on it and no callback
\* for it is queued
NotQueued(f) ==
    /\ futs[f].cbs = <<>>
    /\ \A t \in Tasks : futs[t].fut_waiter # f
    /\ \A i \in 1..Len(ready) : ready[i].f # f
    /\ \A i \in 1..Len(lock.waiters) : lock.waiters[i] # f
    /\ \A i \in 1..Len(sem.waiters) : sem.waiters[i] # f

\* C6: when the deadline of wait_for is reached with the future still
\* pending, the future is cancelled, the caller gets TimeoutError, and
\* afterwards the future is cancelled and in no wait queue.
C6_TimeoutCancels ==
    scenario = "futures" /\ inp.timeout > 0 =>
        /\ futs[1].pc = "wf_cancelled" => futs[UserFut].state = "CANCELLED"
        /\ futs[1].pc = "f_got" /\ futs[UserFut].state = "CANCELLED" =>
               futs[1].thrown = "TimeoutError"
        /\ Finished(1) /\ futs[UserFut].state = "CANCELLED" => Printed("timeout")
        /\ Printed("timeout") =>
               futs[UserFut].state = "CANCELLED" /\ NotQueued(UserFut)

\* the source's case: wait_for(future, timeout=0.5) and nothing sets the
\* future
C6_Witness ==
    /\ scenario = "futures" /\ inp.timeout = 1 /\ inp.setters = <<>>
    /\ Printed("timeout") /\ futs[UserFut].state = "CANCELLED"
    /\ Finished(1)

\* C7: the caller of wait_for sees exactly one outcome: the future's
\* result, and then no timer of wait_for is left and no time-out is
\* reported, or a time-out, and then the future is cancelled and no
\* result was stored or reported.
C7_ExactlyOneOutcome ==
    scenario = "futures" /\ inp.timeout > 0 =>
        /\ Len(IdsOf("result")) + Len(IdsOf("timeout")) <= 1
        /\ Finished(1) => Len(IdsOf("result")) + Len(IdsOf("timeout")) = 1
        /\ Printed("result") =>
               /\ futs[UserFut].state = "FINISHED"
               /\ IdsOf("result") = futs[UserFut].result
               /\ \A x \in timers : x.h.k # "release"
        /\ Printed("timeout") =>
               /\ futs[UserFut].state = "CANCELLED"
               /\ futs[UserFut].result = <<>>
               /\ ~Printed("set")

\* the setter and the timer were due in the same tick, the timer of
\* wait_for had not fired, and the caller got the result
C7_Witness ==
    /\ scenario = "futures" /\ inp.timeout > 0 /\ Len(inp.setters) = 1
    /\ inp.setters[1] = inp.pre + inp.timeout
    /\ out = << <<"set", 1>>, <<"result", 1>> >>
    /\ Finished(1)

\* C8: in logical time two sleeps in sequence take at least the sum of
\* their durations (2d for two sleeps of d), and the same two sleeps under
\* gather take the longer of the two (d).
C8_SleepTimes ==
    scenario = "basic" =>
        \A i \in 1..Len(out) :
            /\ out[i][1] = "sequential" => out[i][2] >= inp.ds[1] + inp.ds[2]
            /\ out[i][1] = "concurrent" => out[i][2] = SeqMax(inp.ds)

\* the source's case, sleep(0.5) twice: 2 ticks in sequence, 1 gathered
C8_Witness ==
    /\ scenario = "basic" /\ inp.ds = <<1, 1>>
    /\ out = << <<"slept", 1>>, <<"sequential", 2>>, <<"concurrent", 1>> >>

\* C9: the pipeline source -> double -> add_one yields 2x+1 for the source
\* values x = 0, 1, .. in order and nothing else; over [0,1,2] it yields
\* exactly [1,3,5].
C9_Pipeline ==
    scenario = "pipeline" =>
        /\ IdsOf("pipe") = [i \in 1..Len(IdsOf("pipe")) |-> 2 * (i - 1) + 1]
        /\ Len(IdsOf("pipe")) <= inp.n
        /\ gen.loop = "done" => Len(IdsOf("pipe")) = inp.n
        /\ gen.loop = "done" /\ inp.n = 3 => IdsOf("pipe") = <<1, 3, 5>>

C9_Witness ==
    /\ scenario = "pipeline" /\ inp.n = 3 /\ gen.loop = "done"
    /\ IdsOf("pipe") = <<1, 3, 5>>

\* the entry task has received an error from gather
GatherRaised == futs[1].pc = "main_end" /\ futs[1].thrown # "" /\ running = 1

\* the children that failed, in completion order
KidsFailed == SelectSeq(KidsCompleted, LAMBDA f : Outcome(futs[f]) # "")

C11_CancelSuspended ==
    scenario = "cancel" =>
        \A t \in Tasks :
            futs[t].susp =>
                /\ <<"fetched", futs[t].arg>> \notin Range(out)
                /\ futs[t].result = <<>>
                /\ ~Suspended(KS, t)
                /\ futs[t].fut_waiter # 0 =>
                       futs[futs[t].fut_waiter].state = "CANCELLED"
                /\ Finished(t) => futs[t].state = "CANCELLED" /\ timers = {}
                /\ AtAny(1, "c_awaited") => futs[1].thrown = "CancelledError"
                /\ Finished(1) =>
                       /\ futs[t].state = "CANCELLED"
                       /\ out = << <<"fetching", futs[t].arg>>,
                                   <<"cancelled", futs[t].arg>> >>

\* the source's case: fetch_data(10, 2.0) cancelled after 0.5 s
C11_Witness ==
    /\ scenario = "cancel" /\ inp.wait = 1 /\ stopping
    /\ \E t \in Tasks : futs[t].susp /\ futs[t].state = "CANCELLED"
                         /\ futs[t].started
    /\ out = << <<"fetching", LongFetchId>>, <<"cancelled", LongFetchId>> >>

\* the step in which the other task t calls release() on the primitive
OtherReleases(t) ==
    /\ inp.op = "release"
    /\ futs[t].prog = "other_task" /\ At(t, "op_act")
    /\ futs'[t].pc = "done"

\* the tasks inside `async with lock`
LockHolders ==
    {t \in TasksOf("critical_section") :
        \/ futs[t].pc = "cs_slept"
        \/ futs[t].pc = "cs_in" /\ futs[t].thrown = ""
        \/ futs[t].pc = "sleep_wait" /\ futs[t].ret = "cs_slept"}

ReleaseUnlocked(t) ==
    /\ futs'[t].exc = "RuntimeError"
    /\ lock' = lock
    /\ ready' = ready
    /\ \A f \in 1..Len(futs) : f # t => futs'[f] = futs[f]

\* the other task's release() found the lock locked, by whatever task: no
\* error, the lock is unlocked, and the first waiter, if it is pending, is
\* resolved; the wait queue itself is as before
ReleaseLocked(t) ==
    /\ futs'[t].state = "FINISHED" /\ futs'[t].exc = ""
    /\ lock' = [lock EXCEPT !.locked = FALSE]
    /\ lock.waiters # <<>> /\ futs[Head(lock.waiters)].state = "PENDING" =>
           futs'[Head(lock.waiters)].state = "FINISHED"

C12_WitnessUnlocked ==
    /\ scenario = "lock_op" /\ Printed("release_error")
    /\ \E t \in TasksOf("other_task") : futs[t].exc = "RuntimeError"

\* the releases made by the other task, which never acquires
Unmatched == Len(IdsOf("release_ok"))

SetStep(t) ==
    /\ futs[t].prog = "setter" /\ At(t, "ev_set")
    /\ futs'[t].pc = "done"

\* the waiters suspended in event.wait()
EventWaiting ==
    {w \in TasksOf("waiter") : futs[w].pc = "event_wait" /\ Suspended(KS, w)}

\* set() sets the flag, resolves the future of every suspended waiter and
\* queues the wake-up of each of them, and none of them has run
SetWakesAll ==
    /\ event'.value
    /\ \A w \in EventWaiting :
           /\ futs'[futs[w].lf].state = "FINISHED"
           /\ \E i \in 1..Len(ready') :
                  ready'[i] = H("wakeup", w, futs[w].lf)
           /\ futs'[w].pc = "event_wait"
    /\ running' = 0

AllReceived ==
    \A i \in 1..inp.n : <<"received", i>> \in Range(out)

\* C14: Event.set() sets the flag and, in the same step, puts every task
\* waiting on the event on the ready queue, all of them and before any of
\* them runs; every waiter then resumes after the single set().
C14_SetWakesAll ==
    /\ [][\A t \in Tasks : scenario = "event" /\ SetStep(t) => SetWakesAll]_vars
    /\ (scenario = "event" ~> (scenario = "event" /\ AllReceived))

\* the source's case: two waiters, both queued by the one set() and both
\* resumed
C14_Witness ==
    /\ scenario = "event" /\ inp.n = MinWaiters /\ inp.op = "none"
    /\ out = << <<"waiting", 1>>, <<"waiting", 2>>, <<"setting", 0>>,
                <<"received", 1>>, <<"received", 2>> >>
    /\ event.value

\* C15: a waiter woken by set() completes its wait() even when clear() is
\* called after the set() and before the waiter resumes: it resumes with no
\* error, is never suspended again, and ends having printed "received
\* event" while the flag is false.
C15_WokenWaiterSucceeds ==
    scenario = "event" /\ inp.op = "clear" =>
        /\ ~event.value
        /\ Printed("setting") => EventWaiting = {}
        /\ \A w \in TasksOf("waiter") :
               /\ futs[w].pc = "ev_got" => futs[w].thrown = ""
               /\ Finished(w) =>
                      /\ futs[w].state = "FINISHED" /\ futs[w].exc = ""
                      /\ <<"received", futs[w].arg>> \in Range(out)
        /\ Finished(1) => AllReceived /\ futs[1].exc = ""

\* both waiters resumed after set(); clear()
C15_Witness ==
    /\ scenario = "event" /\ inp.op = "clear" /\ inp.n = MinWaiters
    /\ ~event.value /\ event.waiters = <<>>
    /\ AllReceived /\ Finished(1)

\* the lines <<tag, id>> printed so far, counted
Count(tag, id) == Cardinality({i \in 1..Len(out) : out[i] = <<tag, id>>})

\* a context manager of demonstrate_async_context_managers is released
\* once for each time it was acquired, and no more
ResourcePaired(m) ==
    /\ Count("acquired", m) <= 1
    /\ Count("released", m) <= Count("releasing", m)
    /\ Count("releasing", m) <= Count("acquired", m)
    /\ Finished(1) => Count("releasing", m) = Count("acquired", m)
    /\ Finished(1) /\ inp.op # "cancel" =>
           Count("released", m) = Count("acquired", m)

\* C16: a task that entered `async with` runs the matching release exactly
\* once on every way out of the body: normal completion, an error raised
\* in the body, a cancellation delivered at the sleep in the body.  So the
\* lock is locked exactly while one task is inside the section, the
\* semaphore's count plus the tasks inside is the capacity, and a resource
\* manager is released once per acquisition.
C16_ScopedRelease ==
    /\ scenario \in {"lock", "lock_op"} /\ inp.op # "release" =>
           /\ lock.locked <=> LockHolders # {}
           /\ Cardinality(LockHolders) <= 1
    /\ scenario \in {"sem", "sem_op"} /\ inp.op # "release" =>
           sem.value + Cardinality(SemHolders) = SemCapacity
    /\ scenario = "resource" => ResourcePaired(1) /\ ResourcePaired(2)

\* a task was cancelled at the sleep inside its critical section, has
\* ended, and another task holds the lock
C16_Witness ==
    /\ scenario = "lock_op" /\ inp.op = "cancel"
    /\ \E t \in TasksOf("critical_section") :
           /\ futs[t].susp /\ futs[t].state = "CANCELLED"
           /\ <<"acquired", futs[t].arg>> \in Range(out)
           /\ \E u \in LockHolders : u # t
    /\ lock.locked

\* the other exits: an error raised in the body of a worker, and in the
\* body of the first resource manager
C16_WitnessError ==
    /\ scenario = "sem_op" /\ inp.op = "fail"
    /\ \E t \in TasksOf("worker") : futs[t].exc = "BodyError"
    /\ stopping

C16_WitnessResource ==
    /\ scenario = "resource" /\ inp.op = "fail" /\ inp.target = 1
    /\ futs[1].exc = "BodyError"
    /\ out = << <<"acquiring", 1>>, <<"acquired", 1>>, <<"releasing", 1>>,
                <<"released", 1>> >>

\* run(entry) is over: the loop has stopped, the entry task is done with its
\* result and every gathered task is done
RunReturned ==
    /\ stopping /\ running = 0
    /\ futs[1].state = "FINISHED" /\ futs[1].exc = ""
    /\ futs[1].kids # <<>>
    /\ \A i \in 1..Len(futs[1].kids) :
           futs[futs[1].kids[i]].state = "FINISHED"
           /\ futs[futs[1].kids[i]].exc = ""

\* C17: under the loop's scheduling, with time advancing when the loop is
\* idle, the Lock demonstration (3 to 5 tasks), the Event demonstration
\* (2 or 3 waiters and a setter) and the Semaphore(2) demonstration (up to
\* 4 workers) each end: every gathered task reaches done and run() returns
\* the entry task's result.
C17_RunTerminates == <>RunReturned

\* the Semaphore(2) demonstration with 4 workers has returned
C17_Witness ==
    /\ scenario = "sem" /\ Len(inp.ds) = 4 /\ RunReturned
    /\ sem.value = SemCapacity /\ sem.waiters = <<>>

\* the documents inserted into a collection, in the order of the inserts,
\* each with its position in the collection as its id
RECURSIVE InsertedInto(_, _)
InsertedInto(log, c) ==
    IF log = <<>> THEN <<>>
    ELSE LET before == InsertedInto(SubSeq(log, 1, Len(log) - 1), c)
             last == log[Len(log)]
         IN  IF last.c = c
             THEN Append(before, WithId(last.doc, Len(before) + 1))
             ELSE before

HasAll(doc, items) ==
    \A k \in DOMAIN items : k \in DOMAIN doc /\ doc[k] = items[k]

\* what the claim says find returns after the inserts of log
ExpectedFind(log, c, q) ==
    LET docs == InsertedInto(log, c)
        Has(doc) == HasAll(doc, q.items)
    IN  IF q.none THEN docs ELSE SelectSeq(docs, Has)

\* C18: after any sequence of inserts, find(collection) returns the
\* collection's documents in insertion order, find(collection, query)
\* returns exactly the documents that have every key of the query with an
\* equal value, in insertion order, and find on a collection that was never
\* inserted into returns the empty list.
C18_FindReturnsMatching ==
    [][\A c \in Collections, q \in Queries :
          DbFind(c, q) =>
              /\ db'.res = ExpectedFind(db.log, c, q)
              /\ (\A i \in 1..Len(db.log) : db.log[i].c # c) => db'.res = <<>>]_vars

\* as in test_find_products_by_price: of two products the find by price
\* returned the second one only, and the id the caller gave it was replaced
C18_Witness ==
    /\ scenario = "db" /\ db.id = 0
    /\ Len(db.data["products"]) = 2 /\ Len(db.res) = 1
    /\ db.res[1] = db.data["products"][2]
    /\ "price" \in DOMAIN db.res[1]
    /\ db.log[2].c = "products" /\ "id" \in DOMAIN db.log[2].doc
    /\ db.log[2].doc["id"] # db.res[1]["id"]

\* the tasks whose coroutine has control, told from the tasks themselves:
\* not done, not waiting for a future, and with no step of theirs on the
\* ready queue
Executing ==
    {t \in Tasks :
        /\ futs[t].state = "PENDING" /\ futs[t].fut_waiter = 0
        /\ \A i \in 1..Len(ready) :
               ~(ready[i].k \in {"step", "wakeup"} /\ ready[i].a = t)}

\* control leaves task t in this step: t is done, or waits for a future,
\* or has yielded in sleep(0) with its next step on the ready queue
GivesUp(t) ==
    /\ running' = 0
    /\ \/ futs'[t].state # "PENDING"
       \/ futs'[t].fut_waiter # 0
       \/ \E i \in 1..Len(ready') : ready'[i] = H("step", t, 0)

\* control enters task t in this step: the loop ran the step or wake-up
\* handle of t at the head of the ready queue
TakesOver(t) ==
    /\ running = 0 /\ ready # <<>>
    /\ Head(ready).k \in {"step", "wakeup"} /\ Head(ready).a = t

\* C19: at most one task has control at any time, and control passes from
\* a task only when it waits for a future (await, sleep, acquire, wait) or
\* is done, and to a task only from the loop; the coroutine of a task that
\* has no control does not advance.
C19_OneRunning ==
    /\ [](/\ Cardinality(Executing) <= 1
          /\ Executing = IF running = 0 THEN {} ELSE {running})
    /\ [][/\ running # 0 /\ running' # running => GivesUp(running)
          /\ running' # 0 /\ running' # running => TakesOver(running')
          /\ \A t \in DOMAIN futs :
                 futs'[t].pc # futs[t].pc => running = t \/ running' = t]_vars

\* a critical section runs on after its sleep while two others are queued
\* for the lock
C19_Witness ==
    /\ scenario = "lock" /\ running # 0 /\ futs[running].pc = "cs_slept"
    /\ Len(lock.waiters) >= 2
    /\ \E t \in Tasks : t # running /\ futs[t].pc = "lock_wait"

\* The queues a task is in.  The ready queue holds its step or wake-up, or
\* the handle of its timer once that is due;
\* the timer queue holds the timer of its sleep or of its wait_for; the
\* queue of a primitive holds the future it made in acquire() or wait();
\* and it is a waiter of a future, task or gather it awaits, directly or
\* through the waiter of wait_for.
InReady(t) ==
    \E i \in 1..Len(ready) :
        \/ ready[i].k \in {"step", "wakeup"} /\ ready[i].a = t
        \/ /\ ready[i].k = "timer_set" /\ futs[t].pc = "sleep_wait"
           /\ ready[i].f = futs[t].fut_waiter
        \/ /\ ready[i].k = "release" /\ futs[t].pc \in {"wf_woke", "wf_cancelled"}
           /\ ready[i].a = futs[t].lf

InTimers(t) == futs[t].h # 0 /\ \E x \in timers : x.seq = futs[t].h

InQueue(t, ws) == futs[t].lf # 0 /\ futs[t].lf \in Range(ws)

Awaitable(f) == futs[f].kind # "future" \/ f = UserFut

WaitsOn(t, f) ==
    \/ Cb("wakeup", t) \in Range(futs[f].cbs)
    \/ /\ futs[t].lf # 0
       /\ Cb("release", futs[t].lf) \in Range(futs[f].cbs)
       /\ Cb("wakeup", t) \in Range(futs[futs[t].lf].cbs)

InFuture(t) == \E f \in DOMAIN futs : Awaitable(f) /\ WaitsOn(t, f)

QueuesOf(t) ==
    {q \in {"ready", "timer", "lock", "semaphore", "event", "future"} :
        \/ q = "ready" /\ InReady(t)
        \/ q = "timer" /\ InTimers(t)
        \/ q = "lock" /\ InQueue(t, lock.waiters)
        \/ q = "semaphore" /\ InQueue(t, sem.waiters)
        \/ q = "event" /\ InQueue(t, event.waiters)
        \/ q = "future" /\ InFuture(t)}

\* C20 as stated: every task is in at most one of the ready queue, the
\* timer queue, the wait queue of a Lock, of a Semaphore, of an Event and
\* the waiter list of a future, and a done or cancelled task is in none.
C20_AtMostOneQueue ==
    \A t \in Tasks :
        LET Q == QueuesOf(t) IN
        /\ Cardinality(Q) <= 1
        /\ Finished(t) => Q = {}

\* the future task t waited for is done and t has not run since: t was
\* woken or cancelled
Woken(t) == futs[t].fut_waiter # 0 /\ Done(KS, futs[t].fut_waiter)

\* task t is suspended in wait_for
InWaitFor(t) == futs[t].pc = "wf_woke" /\ running # t

\* C20, amended: a done or cancelled task is in no queue, and a task that
\* is neither done nor executing is in one.  Apart from the ready queue a
\* task is in at most one queue, except in wait_for, where it is a waiter
\* of the future and has its timeout in the timer queue.  A task is in the
\* ready queue and in another queue only after it was woken or cancelled:
\* it stays in the wait queue of its primitive, or keeps its timer in the
\* timer queue, until it runs and removes the entry itself.
C20_OneWaitUntilResumed ==
    \A t \in Tasks :
        LET Q == QueuesOf(t) IN
        /\ Finished(t) => Q = {}
        /\ ~Finished(t) /\ running # t => Q # {}
        /\ \/ Cardinality(Q \ {"ready"}) <= 1
           \/ InWaitFor(t) /\ Q \ {"ready"} = {"future", "timer"}
        /\ "ready" \in Q /\ Q # {"ready"} => Woken(t) \/ InWaitFor(t)

\* in the Lock demonstration a task woken by release() is in the ready
\* queue and still in the lock's wait queue
C20_Witness ==
    /\ scenario = "lock"
    /\ \E t \in Tasks : QueuesOf(t) = {"ready", "lock"} /\ Woken(t)

\* in the wait_for of the source a task waits with two entries
C20_WitnessWaitFor ==
    /\ scenario = "futures"
    /\ Suspended(KS, 1) /\ QueuesOf(1) = {"future", "timer"}

\* the ready queue changes at its two ends only: the loop takes the head,
\* everything else appends
QueueStep ==
    \/ IsPrefix(ready, ready')
    \/ ready # <<>> /\ IsPrefix(Tail(ready), ready')

\* a task created in this step has not run and its first step is queued
\* behind everything that was ready
CreatedAtTail ==
    \A t \in DOMAIN futs' \ DOMAIN futs :
        futs'[t].kind = "task" =>
            /\ ~futs'[t].started /\ futs'[t].pc = "start"
            /\ \E i \in (Len(ready) + 1)..Len(ready') : ready'[i] = H("step", t, 0)
            /\ running' # t

\* C21: create_task appends the new task's first step to the tail of the
\* ready queue without running it, and the ready queue is first in, first
\* out: the three fetch tasks created in the order 1, 2, 3 start in that
\* order, and none starts before the creator has suspended in gather.
C21_ReadyFifo ==
    /\ [](scenario = "tasks" =>
            /\ IsPrefix(IdsOf("fetching"), [i \in 1..NumFetch |-> i])
            /\ Printed("fetching") => futs[1].pc \notin {"start", "t_gather"})
    /\ [][QueueStep /\ CreatedAtTail]_vars

\* the three tasks were created, the creator has suspended, the first task
\* has started and the steps of the other two are queued in order
C21_Witness ==
    /\ scenario = "tasks" /\ IdsOf("fetching") = <<1>>
    /\ Len(ready) = 2 /\ ready[1].k = "step" /\ ready[2].k = "step"
    /\ futs[ready[1].a].arg = 2 /\ futs[ready[2].a].arg = 3
    /\ Suspended(KS, 1)

\* the timers this step moved to the ready queue, and where it put them
Fired ==
    {x \in timers \ timers' :
        \E i \in (Len(ready) + 1)..Len(ready') : ready'[i] = x.h}

FiredAt(x) ==
    CHOOSE i \in (Len(ready) + 1)..Len(ready') : ready'[i] = x.h

\* x goes before y by deadline, and among equal deadlines by the order of
\* the call_later calls
BySubmission(x, y) ==
    x.when < y.when \/ (x.when = y.when /\ x.seq < y.seq)

WokenWaiters ==
    {lock.waiters[i] : i \in {j \in 1..Len(lock.waiters) :
                                 futs[lock.waiters[j]].state = "FINISHED"}}

\* the place of the last line with this tag in the output, 0 without one
LastPos(tag) ==
    LET is == {i \in 1..Len(out) : out[i][1] = tag}
    IN  IF is = {} THEN 0 ELSE CHOOSE i \in is : \A j \in is : j <= i

\* a step in which the running task calls Lock.acquire()
CallsAcquire ==
    /\ running # 0 /\ futs[running].prog = "critical_section"
    /\ futs[running].pc = "cs_acquire"

\* C23: after a release with waiters, the next owner of the lock is the
\* woken head of the wait queue: the lock is taken in the order of the
\* acquire calls, a free lock with a woken waiter is taken only by a woken
\* waiter that resumes, and a task that calls acquire() in between does
\* not get the lock and is appended to the wait queue.
C23_HandOffToHead ==
    /\ [](scenario = "lock_op" /\ inp.op = "acquire" =>
              IsPrefix(IdsOf("acquired"), IdsOf("waiting")))
    /\ [][~lock.locked /\ WokenWaiters # {} /\ lock'.locked =>
              /\ running # 0 /\ futs[running].pc = "lock_wait"
              /\ futs[running].lf \in WokenWaiters]_vars
    /\ [][CallsAcquire /\ WokenWaiters # {} =>
              /\ ~lock'.locked
              /\ Len(lock'.waiters) = Len(lock.waiters) + 1
              /\ IsPrefix(lock.waiters, lock'.waiters)
              /\ futs'[running].pc = "lock_wait"]_vars

\* the late task has called acquire() after the last release and before
\* the woken head has taken the lock: it waits at the tail of the queue
C23_Witness ==
    /\ scenario = "lock_op" /\ inp.op = "acquire"
    /\ ~lock.locked /\ Len(lock.waiters) >= 2
    /\ Head(lock.waiters) \in WokenWaiters
    /\ \E t \in Tasks :
          /\ futs[t].prog = "critical_section" /\ futs[t].arg = LateId
          /\ futs[t].pc = "lock_wait"
          /\ futs[t].lf = lock.waiters[Len(lock.waiters)]
          /\ futs[futs[t].lf].state = "PENDING"
    /\ LastPos("acquired") < LastPos("releasing")
    /\ \E i \in 1..Len(out) :
          out[i] = <<"waiting", LateId>> /\ LastPos("releasing") < i

\* a step in which the running task calls Semaphore.release()
ReleasesSem ==
    /\ running # 0
    /\ \/ futs[running].prog = "worker" /\ futs[running].pc = "w_slept"
       \/ /\ scenario = "sem_op" /\ inp.op = "release"
          /\ futs[running].prog = "other_task" /\ futs[running].pc = "op_act"

\* the places in the semaphore's queue of the waiters not yet woken or
\* cancelled
PendingWaiters ==
    {i \in 1..Len(sem.waiters) : futs[sem.waiters[i]].state = "PENDING"}

\* this step wakes the i-th waiter of the queue and no other
WakesOnly(i) ==
    /\ futs[sem.waiters[i]].state = "PENDING"
    /\ futs'[sem.waiters[i]].state = "FINISHED"
    /\ \A j \in 1..Len(sem.waiters) :
          j # i => futs'[sem.waiters[j]].state = futs[sem.waiters[j]].state

\* the count goes down by one, from a positive value, or not at all
CountDiscipline ==
    /\ [](sem.value >= 0)
    /\ [][sem'.value < sem.value =>
              sem.value > 0 /\ sem'.value = sem.value - 1]_vars

\* C24 as stated: release() with a non-empty wait queue wakes exactly the
\* head of the queue and leaves the count unchanged, with an empty queue
\* it increments the count; the count goes down only from a positive
\* value and is never negative.
C24_ReleaseWakesQueueHead ==
    /\ [][ReleasesSem =>
              /\ sem'.waiters = sem.waiters
              /\ IF sem.waiters # <<>>
                 THEN WakesOnly(1) /\ sem'.value = sem.value
                 ELSE sem'.value = sem.value + 1]_vars
    /\ CountDiscipline

\* C24, amended: release() wakes exactly the first waiter of the queue
\* that is not yet woken or cancelled and leaves the count unchanged;
\* without such a waiter (the queue is empty, or holds only waiters woken
\* or cancelled that have not run yet) it increments the count by one and
\* wakes nobody; the count goes down only from a positive value and is
\* never negative.
C24_ReleaseWakesFirstPending ==
    /\ [][ReleasesSem =>
              /\ sem'.waiters = sem.waiters
              /\ IF PendingWaiters # {}
                 THEN /\ WakesOnly(CHOOSE i \in PendingWaiters :
                                       \A j \in PendingWaiters : i <= j)
                      /\ sem'.value = sem.value
                 ELSE /\ sem'.value = sem.value + 1
                      /\ \A j \in 1..Len(sem.waiters) :
                            futs'[sem.waiters[j]].state =
                                futs[sem.waiters[j]].state]_vars
    /\ CountDiscipline

\* the source's four workers: workers 1 and 2 have released in the same
\* loop iteration; the second release found the head of the queue woken
\* and woke the waiter behind it
C24_Witness ==
    /\ scenario = "sem" /\ Len(inp.ds) = 4
    /\ IdsOf("releasing") = <<1, 2>> /\ IdsOf("acquired") = <<1, 2>>
    /\ Len(sem.waiters) = 2 /\ sem.value = 0
    /\ \A i \in 1..2 : futs[sem.waiters[i]].state = "FINISHED"

\* what cancel() can change of a task or future, and what its awaiters see
TaskView(o) ==
    [state |-> o.state, result |-> o.result, exc |-> o.exc, cbs |-> o.cbs,
     fut_waiter |-> o.fut_waiter, must_cancel |-> o.must_cancel,
     num_cancels_requested |-> o.num_cancels_requested,
     pc |-> o.pc, thrown |-> o.thrown]

\* the same without the marks of a cancellation that is still pending
OutcomeView(o) ==
    [state |-> o.state, result |-> o.result, exc |-> o.exc, cbs |-> o.cbs,
     fut_waiter |-> o.fut_waiter, pc |-> o.pc, thrown |-> o.thrown]

\* a step in which main of demonstrate_tasks calls task.cancel()
MainCancels == scenario = "cancel" /\ running = 1 /\ futs[1].pc = "c_cancel"

\* a step in which the other task calls cancel() on a gathered task
OtherCancels ==
    /\ scenario \in {"lock_op", "sem_op"} /\ inp.op = "cancel"
    /\ running # 0 /\ futs[running].prog = "other_task"
    /\ futs[running].pc = "op_act"

\* the task the step cancels
CancelTarget ==
    IF scenario = "cancel" THEN futs[1].kids[1]
    ELSE futs[1].kids[futs[running].arg]

\* the step leaves every task and future but the caller, and the queues,
\* as they were
CancelIsNoOp ==
    /\ Len(futs') = Len(futs)
    /\ \A f \in 1..Len(futs) :
          f # running => TaskView(futs'[f]) = TaskView(futs[f])
    /\ timers' = timers
    /\ MainCancels => ready' = ready /\ completed' = completed

C25_WitnessPending ==
    /\ scenario = "cancel" /\ inp.n = 2 /\ inp.wait \in 0..(LongFetch - 1)
    /\ futs[1].pc = "c_await"
    /\ futs[futs[1].kids[1]].state = "PENDING"
    /\ futs[futs[1].kids[1]].must_cancel
    /\ futs[futs[1].kids[1]].num_cancels_requested = 2

\* cancel() reached the entry task while it was in the teardown of
\* manager m: after "Releasing resource" and with no "Resource released"
CancelledInTeardown(m) ==
    \E i, j \in 1..Len(out) :
        /\ i < j /\ out[i] = <<"releasing", m>> /\ out[j] = <<"cancel", m>>
        /\ Count("released", m) = 0

\* C26: a context manager that holds a resource runs its teardown exactly
\* once when the body of its `async with` ends, fails or is cancelled:
\* the teardown is never entered twice, never without the resource, and
\* when the task is over it was entered for every resource acquired; it
\* runs to its end unless the task is cancelled again inside it.
C26_TeardownOnce ==
    scenario = "resource" =>
        \A m \in 1..2 :
            /\ Count("releasing", m) <= 1
            /\ Count("releasing", m) <= Count("acquired", m)
            /\ Count("released", m) <= Count("releasing", m)
            /\ Finished(1) => Count("releasing", m) = Count("acquired", m)
            /\ Finished(1) /\ Count("released", m) < Count("releasing", m)
                   => CancelledInTeardown(m)

\* the entry task was cancelled in the body under async_resource_decorator:
\* the finally block ran once, to its end, and the task ended cancelled
C26_Witness ==
    /\ scenario = "resource" /\ inp.op = "cancel"
    /\ futs[1].state = "CANCELLED"
    /\ \E i, j, k \in 1..Len(out) :
          /\ i < j /\ j < k
          /\ out[i] = <<"acquired", 2>> /\ out[j] = <<"cancel", 2>>
          /\ out[k] = <<"releasing", 2>>
    /\ Count("releasing", 2) = 1 /\ Count("released", 2) = 1

\* a step in which __anext__ is called on the exhausted counter
NextOnExhausted ==
    /\ scenario = "iterator" /\ running = 1 /\ futs[1].pc = "it_next"
    /\ Printed("exhausted")

\* C27: AsyncCounter(stop) yields exactly 0, 1, ..., stop-1 in order and
\* its `current` never exceeds `stop`; it raises StopAsyncIteration only
\* after the stop-th value; once it has raised it, no step yields another
\* value, and every later __anext__ call raises it again in the same step,
\* without a timer, a ready-queue entry or a suspension of the caller.
C27_ExhaustedForGood ==
    /\ [](scenario = "iterator" =>
              /\ gen.current <= gen.stop
              /\ IdsOf("iter") = [i \in 1..gen.current |-> i - 1]
              /\ Printed("exhausted") => gen.current = inp.n
              /\ futs[1].state # "PENDING" =>
                    /\ IdsOf("iter") = [i \in 1..inp.n |-> i - 1]
                    /\ Exhaustions = inp.wait + 1)
    /\ [][scenario = "iterator" /\ Printed("exhausted") =>
              IdsOf("iter")' = IdsOf("iter") /\ gen' = gen]_vars
    /\ [][NextOnExhausted =>
              /\ Exhaustions' = Exhaustions + 1
              /\ timers' = timers
              /\ futs'[1].fut_waiter = 0
              /\ IF futs'[1].state = "PENDING"
                 THEN running' = 1 /\ ready' = ready
                 ELSE futs'[1].state = "FINISHED"]_vars

\* AsyncCounter(3) has yielded 0, 1, 2, has ended the loop, and has
\* raised StopAsyncIteration again on a later call
C27_Witness ==
    /\ scenario = "iterator" /\ inp.n = 3
    /\ IdsOf("iter") = <<0, 1, 2>> /\ gen.current = 3
    /\ Exhaustions >= 2

\* the ids of the tasks that have printed "acquired lock" and not yet
\* "releasing lock"
InsideSection == Range(IdsOf("acquired")) \ Range(IdsOf("releasing"))

\* C28: with the tasks of the Lock demonstration, each running
\* `async with lock:` around a sleep, at most one task is between its
\* "acquired lock" and its "releasing lock" line in every reachable state,
\* and the lock is held for as long as one is.
C28_MutualExclusion ==
    scenario = "lock" \/ (scenario = "lock_op" /\ inp.op = "acquire") =>
        /\ Cardinality(InsideSection) <= 1
        /\ InsideSection # {} => lock.locked
        /\ \A i \in Range(IdsOf("acquired")) : Count("acquired", i) = 1

\* the source's three tasks: task 1 is suspended in its sleep inside the
\* section while task 3 runs and is about to call acquire()
C28_Witness ==
    /\ scenario = "lock" /\ Len(inp.ds) = MinLockTasks
    /\ InsideSection = {1}
    /\ \E t \in TasksOf("critical_section") :
          futs[t].arg = 1 /\ Suspended(KS, t) /\ futs[t].ret = "cs_slept"
    /\ running # 0 /\ futs[running].prog = "critical_section"
    /\ futs[running].arg = 3 /\ futs[running].pc = "cs_acquire"

\* the value seen through the i-th reference
ValueVia(i) == oop.heap[oop.refs[i]].value

\* the last call or assignment made
LastOp == oop.hist[Len(oop.hist)]

\* no assignment to value has been made yet
NeverSet == \A k \in 1..Len(oop.hist) : oop.hist[k][1] # "set"

\* C29: for the class Singleton, which uses SingletonMeta, every
\* constructor call returns the same instance, whatever its argument; the
\* instance holds the argument of the first call until an assignment
\* changes it, a later call leaves it as it is, and a value assigned
\* through one reference is the value seen through every reference.
C29_OneInstance ==
    /\ [](scenario = "singleton" =>
              /\ \A i, j \in 1..Len(oop.refs) :
                    oop.refs[i] = oop.refs[j] /\ ValueVia(i) = ValueVia(j)
              /\ Len(oop.heap) <= 1
              /\ oop.refs # <<>> => oop.instances["Singleton"] = oop.refs[1]
              /\ oop.refs # <<>> /\ NeverSet => ValueVia(1) = oop.hist[1][2])
    /\ [][scenario = "singleton" /\ oop.refs # <<>> /\
              Len(oop'.refs) > Len(oop.refs) =>
                  oop'.heap = oop.heap /\ oop'.instances = oop.instances]_vars
    /\ [][scenario = "singleton" /\ Len(oop'.refs) = Len(oop.refs) =>
              \A j \in 1..Len(oop.refs) :
                  oop'.heap[oop'.refs[j]].value =
                      oop'.hist[Len(oop'.hist)][2]]_vars

\* the run of demonstrate_metaclasses: Singleton("First"),
\* Singleton("Second"), and "Changed" assigned through the first reference
C29_Witness ==
    /\ scenario = "singleton"
    /\ oop.hist = << <<"call", "First">>, <<"call", "Second">>,
                     <<"set", "Changed">> >>
    /\ oop.refs = <<1, 1>>
    /\ ValueVia(2) = "Changed"

\* the Product holds a price and a quantity above 0 and a discount from
\* 0 to 100
ProductValid ==
    /\ Gt(oop.product.price, Zero) /\ Gt(oop.product.quantity, Zero)
    /\ Le(Zero, oop.product.discount) /\ Le(oop.product.discount, Hundred)

\* C30 as stated: a Product that was constructed has price > 0,
\* quantity > 0 and 0 <= discount <= 100 after any assignments to the
\* three attributes; an assignment either keeps this, or raises
\* ValueError and leaves every attribute as it was.
C30_ProductAlwaysValid ==
    /\ [](scenario = "product" /\ oop.product.made => ProductValid)
    /\ [][scenario = "product" /\ oop.product.made =>
              \/ oop'.err = "" /\ ProductValid'
              \/ oop'.err = "ValueError" /\ oop'.product = oop.product]_vars

\* a Product constructed with numbers above 0 has accepted the assignment
\* of NaN to its price without an error
C30_Witness ==
    /\ scenario = "product" /\ oop.product.made
    /\ oop.hist = << <<"new", "">>, <<"price", "">> >>
    /\ oop.product.price = NaN /\ oop.err = ""
    /\ Gt(oop.product.quantity, Zero)

====
